---------------------------- MODULE Spec2Model ----------------------------
(***************************************************************************)
(* A model of the ATS document validator of ats-pdf-generator:             *)
(*   - the rule catalog and validate_document of                           *)
(*     src/ats_pdf_generator/validator.py,                                 *)
(*   - ContactValidator of src/ats_pdf_generator/validator/                *)
(*     contact_validator.py,                                               *)
(*   - validate_document of the validator package,                         *)
(*     src/ats_pdf_generator/validator/validator.py,                       *)
(*   - cli of src/ats_pdf_generator/ats_converter.py: gating, exit codes   *)
(*     and the preprocessed temporary file.                                *)
(*                                                                         *)
(* Text is modelled as Python sees it: a str is a sequence of Unicode code *)
(* points (natural numbers).  Regular expressions are modelled by a small  *)
(* backtracking matcher that enumerates match ends in the priority order   *)
(* of Python's re module, so that search / match / finditer return the     *)
(* match Python returns.                                                   *)
(***************************************************************************)
EXTENDS Integers, Sequences, FiniteSets, TLC

VARIABLES
    pc,          \* position of the running program
    bank,        \* index of the token bank the input text is drawn from
    ntok,        \* number of tokens appended to the input text so far
    content,     \* the input text (document or contact line), a str
    start_line,  \* ContactValidator.validate: the line_number argument
    violations,  \* the list returned by the last validation call
    opts,        \* cli flags: validate_only, fail_on_warning, validation_report
    exit_code,   \* cli: the process exit code, -1 while running
    report_written, \* cli: the validation report file was written
    preprocessed,\* cli: the preprocessed temporary file exists
    pandoc_runs, \* cli: number of times pandoc was invoked
    calls,       \* session: the calls made so far, with arguments and result
    raised,      \* cli: the step that raised and its exception, if any
    fs           \* cli: input path, existing files, whether os.remove failed

vars == <<pc, bank, ntok, content, start_line, violations, opts, exit_code,
          report_written, preprocessed, pandoc_runs,
          calls,
          raised,
          fs>>

---------------------------------------------------------------------------
(* Python str primitives                                                   *)

\* str.isspace() / the \s class of a str pattern, per code point
WHITESPACE ==
    (9..13) \cup (28..32) \cup {133, 160, 5760} \cup (8192..8202)
        \cup {8232, 8233, 8239, 8287, 12288}

\* \d of a str pattern (ASCII digits; the model's alphabet has no others)
DIGITS == 48..57

UPPER == 65..90

LOWER == 97..122

\* \w of a str pattern restricted to the model's alphabet: ASCII
\* alphanumerics and the underscore
WORDCHARS == DIGITS \cup UPPER \cup LOWER \cup {95}

\* s[a:b] with 0-based offsets
Slice(s, a, b) == SubSeq(s, a + 1, b)

\* str.lower() on the model's alphabet (only ASCII letters have case)
LowerChar(c) == IF c \in UPPER THEN c + 32 ELSE c

lower(s) == [k \in 1..Len(s) |-> LowerChar(s[k])]

RECURSIVE LStripFrom(_, _)
LStripFrom(s, i) ==
    IF i < Len(s) /\ s[i + 1] \in WHITESPACE THEN LStripFrom(s, i + 1) ELSE i

RECURSIVE RStripTo(_, _)
RStripTo(s, j) ==
    IF j > 0 /\ s[j] \in WHITESPACE THEN RStripTo(s, j - 1) ELSE j

\* str.strip()
strip(s) ==
    LET a == LStripFrom(s, 0)
        b == RStripTo(s, Len(s))
    IN  IF a >= b THEN <<>> ELSE Slice(s, a, b)

\* s.startswith(p)
startswith(s, p) == Len(p) <= Len(s) /\ Slice(s, 0, Len(p)) = p

\* s[i:].startswith(p)
StartsAt(s, p, i) == i + Len(p) <= Len(s) /\ Slice(s, i, i + Len(p)) = p

\* p in s
Contains(s, p) == \E i \in 0..(Len(s) - Len(p)) : StartsAt(s, p, i)

\* the first offset j in from..Len(s) at which Hit(j) holds, Len(s) + 1 if
\* there is none: one left-to-right scan
FirstFrom(s, from, Hit(_)) ==
    CHOOSE j \in from..(Len(s) + 1) :
        /\ j = Len(s) + 1 \/ Hit(j)
        /\ \A k \in from..(j - 1) : ~Hit(k)

RECURSIVE CountFrom(_, _, _)

\* the occurrences of p in s from offset j on, where j is the offset of the
\* next occurrence if there is one
CountAt(s, p, j) ==
    IF j > Len(s) - Len(p) THEN 0 ELSE 1 + CountFrom(s, p, j + Len(p))

CountFrom(s, p, i) ==
    CountAt(s, p, FirstFrom(s, i, LAMBDA x : StartsAt(s, p, x)))

\* s.count(p): non-overlapping occurrences, p non-empty
count(s, p) == CountFrom(s, p, 0)

\* the line boundaries str.splitlines() recognises
LINE_BREAKS == (10..13) \cup (28..30) \cup {133, 8232, 8233}

RECURSIVE SplitLinesFrom(_, _)

\* the offset after the line boundary at offset i ("\r\n" is one boundary)
AfterBreak(s, i) ==
    IF s[i + 1] = 13 /\ i + 1 < Len(s) /\ s[i + 2] = 10 THEN i + 2 ELSE i + 1

\* the lines of s[start:], where i is the offset of the next line boundary
SplitLinesAt(s, start, i) ==
    IF i >= Len(s) THEN <<Slice(s, start, Len(s))>>
    ELSE <<Slice(s, start, i)>> \o SplitLinesFrom(s, AfterBreak(s, i))

SplitLinesFrom(s, start) ==
    IF start >= Len(s) THEN <<>>
    ELSE SplitLinesAt(s, start,
             FirstFrom(s, start,
                 LAMBDA x : x < Len(s) /\ s[x + 1] \in LINE_BREAKS))

\* str.splitlines()
splitlines(s) == SplitLinesFrom(s, 0)

RECURSIVE SplitOnFrom(_, _, _)

\* the parts of s[start:], where i is the offset of the next separator
SplitOnAt(s, sep, start, i) ==
    IF i >= Len(s) THEN <<Slice(s, start, Len(s))>>
    ELSE <<Slice(s, start, i)>> \o SplitOnFrom(s, sep, i + 1)

SplitOnFrom(s, sep, start) ==
    SplitOnAt(s, sep, start,
        FirstFrom(s, start, LAMBDA x : x < Len(s) /\ s[x + 1] = sep))

\* s.split(sep) for a one-character separator
split_on(s, sep) == SplitOnFrom(s, sep, 0)

RECURSIVE SplitWsFrom(_, _)

\* the word that starts at offset a and ends at offset b, and those after it
SplitWsWord(s, a, b) ==
    IF b >= Len(s) THEN <<Slice(s, a, Len(s))>>
    ELSE <<Slice(s, a, b)>> \o SplitWsFrom(s, b)

\* the words of s from offset a on, the offset of the next word if any
SplitWsAt(s, a) ==
    IF a >= Len(s) THEN <<>>
    ELSE SplitWsWord(s, a,
             FirstFrom(s, a, LAMBDA x : x < Len(s) /\ s[x + 1] \in WHITESPACE))

SplitWsFrom(s, from) ==
    SplitWsAt(s,
        FirstFrom(s, from, LAMBDA x : x < Len(s) /\ s[x + 1] \notin WHITESPACE))

\* s.split(): split on runs of whitespace
split_ws(s) == SplitWsFrom(s, 0)

\* s.replace(c, "") for a one-character c
RemoveChar(s, c) == SelectSeq(s, LAMBDA x : x # c)

---------------------------------------------------------------------------
(* String literals: a TLA+ string of printable ASCII as a Python str       *)

\* the printable ASCII characters from code point 32 (space) to 95
ASCII_32_95 ==
    " !\"#$%&'()*+,-./0123456789:;<=>?@ABCDEFGHIJKLMNOPQRSTUVWXYZ[\\]^_"

\* the printable ASCII characters from code point 97 to 126
ASCII_97_126 == "abcdefghijklmnopqrstuvwxyz{|}~"

\* ord(ch) for a one-character string of printable ASCII (no grave accent)
Ord(ch) ==
    CHOOSE c \in (32..95) \cup (97..126) :
        IF c <= 95 THEN SubSeq(ASCII_32_95, c - 31, c - 31) = ch
        ELSE SubSeq(ASCII_97_126, c - 96, c - 96) = ch

\* the str (sequence of code points) written as the TLA+ string lit
Str(lit) == [k \in 1..Len(lit) |-> Ord(SubSeq(lit, k, k))]

\* "\n"
NL == <<10>>

RECURSIVE Flatten(_)
\* the concatenation of a list of lists (repeated list.extend / append)
Flatten(ss) == IF Len(ss) = 0 THEN <<>> ELSE Head(ss) \o Flatten(Tail(ss))

---------------------------------------------------------------------------
(* Python re: pattern constructors and the backtracking matcher            *)

Cls(S) == [t |-> "cls", s |-> S]

NCls(S) == [t |-> "ncls", s |-> S]

Cat(rs) == [t |-> "cat", rs |-> rs]

Alt(rs) == [t |-> "alt", rs |-> rs]

\* r{lo,hi}; hi < 0 stands for no upper limit.  The repetition of a single
\* character class is tagged "run": its ends are computed in one scan.
Rep(r, lo, hi) ==
    [t |-> IF r.t \in {"cls", "ncls"} THEN "run" ELSE "rep", r |-> r,
     lo |-> lo, hi |-> hi, greedy |-> TRUE]

\* r{lo,hi}? (non-greedy)
LazyRep(r, lo, hi) ==
    [t |-> IF r.t \in {"cls", "ncls"} THEN "run" ELSE "rep", r |-> r,
     lo |-> lo, hi |-> hi, greedy |-> FALSE]

Opt(r) == Rep(r, 0, 1)

Star(r) == Rep(r, 0, -1)

Plus(r) == Rep(r, 1, -1)

WordB == [t |-> "wordb"]

Bol == [t |-> "bol"]

Eol == [t |-> "eol"]

NotAhead(r) == [t |-> "notahead", r |-> r]

Ch(c) == Cls({c})

\* a literal string
Lit(str) == [t |-> "lit", str |-> str]

\* a literal string under re.IGNORECASE
LitI(str) == [t |-> "liti", str |-> str]

\* "." without re.DOTALL
Dot == NCls({10})

\* "." under re.DOTALL
DotAll == NCls({})

\* \b holds at offset i of s
AtWordBoundary(s, i) ==
    (i > 0 /\ s[i] \in WORDCHARS) # (i < Len(s) /\ s[i + 1] \in WORDCHARS)

RECURSIVE After(_, _)
\* the offsets of es that lie beyond i (a repetition must consume text)
After(es, i) ==
    IF Len(es) = 0 THEN <<>>
    ELSE (IF Head(es) > i THEN <<Head(es)>> ELSE <<>>) \o After(Tail(es), i)

\* character c is matched by the one-character pattern r
CharIn(r, c) == IF r.t = "cls" THEN c \in r.s ELSE c \notin r.s

\* the ends of a run that may take up to most characters from offset i,
\* tried longest first (greedy) or shortest first (lazy)
RunEndsOf(re, i, most) ==
    IF most < re.lo THEN <<>>
    ELSE IF re.greedy THEN [k \in 1..(most - re.lo + 1) |-> i + most - k + 1]
    ELSE [k \in 1..(most - re.lo + 1) |-> i + re.lo + k - 1]

\* the number of characters a run that stops at offset stop may take
RunMost(re, s, i, stop) ==
    IF re.hi >= 0 /\ re.hi < (IF stop > Len(s) THEN Len(s) ELSE stop) - i
    THEN re.hi
    ELSE (IF stop > Len(s) THEN Len(s) ELSE stop) - i

\* ends of re.r{lo,hi} at offset i when re.r matches one character: the run
\* of matching characters from i is taken as far as hi allows
RunEnds(re, s, i) ==
    RunEndsOf(re, i,
        RunMost(re, s, i,
            FirstFrom(s, i, LAMBDA x : x < Len(s) /\ ~CharIn(re.r, s[x + 1]))))

RECURSIVE Ends(_, _, _)
RECURSIVE SeqEnds(_, _, _)
RECURSIVE FromAll(_, _, _)
RECURSIVE AltEnds(_, _, _)
RECURSIVE RepEnds(_, _, _, _)
RECURSIVE RepFromAll(_, _, _, _)

\* The offsets at which a match of re starting at offset i of s can end, in
\* the order in which Python's backtracking matcher tries them.
Ends(re, s, i) ==
    CASE re.t = "cls" ->
            IF i < Len(s) /\ s[i + 1] \in re.s THEN <<i + 1>> ELSE <<>>
      [] re.t = "ncls" ->
            IF i < Len(s) /\ s[i + 1] \notin re.s THEN <<i + 1>> ELSE <<>>
      [] re.t = "lit" ->
            IF StartsAt(s, re.str, i) THEN <<i + Len(re.str)>> ELSE <<>>
      [] re.t = "liti" ->
            IF /\ i + Len(re.str) <= Len(s)
               /\ lower(Slice(s, i, i + Len(re.str))) = lower(re.str)
            THEN <<i + Len(re.str)>> ELSE <<>>
      [] re.t = "run" -> RunEnds(re, s, i)
      [] re.t = "cat" -> SeqEnds(re.rs, s, i)
      [] re.t = "alt" -> AltEnds(re.rs, s, i)
      [] re.t = "rep" -> RepEnds(re, s, i, 0)
      [] re.t = "wordb" -> IF AtWordBoundary(s, i) THEN <<i>> ELSE <<>>
      [] re.t = "bol" -> IF i = 0 THEN <<i>> ELSE <<>>
      [] re.t = "eol" ->
            IF i = Len(s) \/ (i = Len(s) - 1 /\ s[i + 1] = 10)
            THEN <<i>> ELSE <<>>
      [] re.t = "notahead" ->
            IF Ends(re.r, s, i) = <<>> THEN <<i>> ELSE <<>>

SeqEnds(rs, s, i) ==
    IF Len(rs) = 0 THEN <<i>>
    ELSE FromAll(Tail(rs), s, Ends(Head(rs), s, i))

FromAll(rs, s, starts) ==
    IF Len(starts) = 0 THEN <<>>
    ELSE SeqEnds(rs, s, Head(starts)) \o FromAll(rs, s, Tail(starts))

AltEnds(rs, s, i) ==
    IF Len(rs) = 0 THEN <<>>
    ELSE Ends(Head(rs), s, i) \o AltEnds(Tail(rs), s, i)

\* one more repetition first (greedy) or stopping here first (lazy)
RepOrder(greedy, more, here) ==
    IF greedy THEN more \o here ELSE here \o more

RepEnds(re, s, i, k) ==
    RepOrder(re.greedy,
        IF re.hi < 0 \/ k < re.hi
        THEN RepFromAll(re, s, After(Ends(re.r, s, i), i), k + 1)
        ELSE <<>>,
        IF k >= re.lo THEN <<i>> ELSE <<>>)

RepFromAll(re, s, starts, k) ==
    IF Len(starts) = 0 THEN <<>>
    ELSE RepEnds(re, s, Head(starts), k) \o RepFromAll(re, s, Tail(starts), k)

\* A match is <<start, end>> (0-based, end exclusive); <<>> is None.
\* The match at offset at with the first end the matcher finds there.
MatchOf(at, es) == IF Len(es) > 0 THEN <<at, es[1]>> ELSE <<>>

\* the match at offset at, None when at lies beyond the end of s
MatchAt(re, s, at) ==
    IF at > Len(s) THEN <<>> ELSE MatchOf(at, Ends(re, s, at))

\* the match at the leftmost offset from i on at which re matches
SearchFrom(re, s, i) ==
    MatchAt(re, s, FirstFrom(s, i, LAMBDA x : Len(Ends(re, s, x)) > 0))

\* pattern.search(s)
search(re, s) == SearchFrom(re, s, 0)

\* pattern.match(s)
match(re, s) == MatchOf(0, Ends(re, s, 0))

RECURSIVE FindIterFrom(_, _, _)

\* the match m and the matches after it; an empty match moves on by one
FindIterNext(re, s, m) ==
    IF Len(m) = 0 THEN <<>>
    ELSE <<m>> \o FindIterFrom(re, s, IF m[2] > m[1] THEN m[2] ELSE m[2] + 1)

FindIterFrom(re, s, i) == FindIterNext(re, s, SearchFrom(re, s, i))

\* pattern.finditer(s): the non-overlapping matches, left to right
finditer(re, s) == FindIterFrom(re, s, 0)

\* match.group(0)
group(s, m) == Slice(s, m[1], m[2])

---------------------------------------------------------------------------
(* The rule catalog: src/ats_pdf_generator/validator.py                    *)

Severity == {"CRITICAL", "HIGH", "MEDIUM", "LOW"}

\* A Violation of the rule catalog.  message and suggestion are functions
\* of violation_type and found_text and are not carried.
Violation(n, line, type, sev, found) ==
    [line_number |-> n, line_content |-> line, violation_type |-> type,
     severity |-> sev, found_text |-> found]

EMOJI_RANGES ==
    (127456..127487) \cup (127744..128511) \cup (128512..128591)
        \cup (128640..128767) \cup (128768..128895) \cup (128896..129023)
        \cup (129024..129279) \cup (129280..129535) \cup (129536..129647)
        \cup (129648..129791) \cup (9728..9983) \cup (9984..10175)
        \cup (8592..8703)

EMOJI_PATTERN == Plus(Cls(EMOJI_RANGES))

\* ^\s*\|.*\|.*$
TABLE_PATTERN ==
    Cat(<<Bol, Star(Cls(WHITESPACE)), Ch(124), Star(Dot), Ch(124), Star(Dot),
          Eol>>)

\* the character class of the source holds two U+0027 apostrophes
SMART_QUOTES_PATTERN == Cls({39})

EM_DASH_PATTERN == Ch(8212)

EN_DASH_PATTERN == Ch(8211)

ELLIPSIS_PATTERN == Ch(8230)

\* ^[A-Z\s\d\.,!?\-:;()]+$
ALL_CAPS_PATTERN ==
    Cat(<<Bol,
          Plus(Cls(UPPER \cup WHITESPACE \cup DIGITS
                       \cup {Ord("."), Ord(","), Ord("!"), Ord("?"), Ord("-"),
                             Ord(":"), Ord(";"), Ord("("), Ord(")")})),
          Eol>>)

\* <!--.*?--> with re.DOTALL
HIDDEN_COMMENT_PATTERN ==
    Cat(<<Lit(Str("<!--")), LazyRep(DotAll, 0, -1), Lit(Str("-->"))>>)

\* [-<en dash><em dash>]
DATE_DASHES == {Ord("-"), 8211, 8212}

\* \b(?:Early|Mid|Late|Summer|Fall|Winter|Spring)\s+\d{4}\b
\*   |\b\d{4}\s*[-..]\s*\d{4}\b(?!\s*\(for education only\))
NON_STANDARD_DATE_PATTERN ==
    Alt(<<Cat(<<WordB,
                Alt(<<Lit(Str("Early")), Lit(Str("Mid")), Lit(Str("Late")),
                      Lit(Str("Summer")), Lit(Str("Fall")),
                      Lit(Str("Winter")), Lit(Str("Spring"))>>),
                Plus(Cls(WHITESPACE)), Rep(Cls(DIGITS), 4, 4), WordB>>),
          Cat(<<WordB, Rep(Cls(DIGITS), 4, 4), Star(Cls(WHITESPACE)),
                Cls(DATE_DASHES), Star(Cls(WHITESPACE)),
                Rep(Cls(DIGITS), 4, 4), WordB,
                NotAhead(Cat(<<Star(Cls(WHITESPACE)),
                               Lit(Str("(for education only)"))>>))>>)>>)

COMMON_ACRONYMS ==
    {Str("API"), Str("AWS"), Str("CSS"), Str("HTML"), Str("HTTP"),
     Str("HTTPS"), Str("JSON"), Str("REST"), Str("SQL"), Str("XML"),
     Str("UI"), Str("UX"), Str("CI"), Str("CD"), Str("SDLC"), Str("IDE"),
     Str("OS"), Str("CPU"), Str("GPU"), Str("RAM"), Str("SSD"), Str("URL"),
     Str("URI"), Str("DNS"), Str("SSL"), Str("TLS"), Str("VPN"), Str("IP"),
     Str("TCP"), Str("UDP"), Str("FTP"), Str("SSH")}

\* both patterns are compiled with re.IGNORECASE by _check_creative_job_titles
CREATIVE_TITLE_PATTERNS ==
    <<Cat(<<WordB,
            Alt(<<LitI(Str("ninja")), LitI(Str("wizard")), LitI(Str("guru")),
                  LitI(Str("rockstar")), LitI(Str("champion")),
                  LitI(Str("hero")), LitI(Str("expert")),
                  LitI(Str("master")), LitI(Str("specialist"))>>),
            WordB>>),
      Cat(<<WordB,
            Alt(<<Cat(<<LitI(Str("code")), Plus(Cls(WHITESPACE)),
                        LitI(Str("ninja"))>>),
                  Cat(<<LitI(Str("digital")), Plus(Cls(WHITESPACE)),
                        LitI(Str("wizard"))>>),
                  Cat(<<LitI(Str("tech")), Plus(Cls(WHITESPACE)),
                        LitI(Str("rockstar"))>>),
                  Cat(<<LitI(Str("code")), Plus(Cls(WHITESPACE)),
                        LitI(Str("guru"))>>)>>),
            WordB>>)>>

STANDARD_SECTIONS ==
    {Str("Professional Summary"), Str("Summary"), Str("Career Summary"),
     Str("Profile"), Str("Professional Experience"), Str("Work Experience"),
     Str("Experience"), Str("Employment History"), Str("Technical Skills"),
     Str("Skills"), Str("Core Competencies"), Str("Technical Proficiencies"),
     Str("Education"), Str("Academic Background"),
     Str("Educational Qualifications"), Str("Certifications"),
     Str("Licenses and Certifications"), Str("Professional Certifications"),
     Str("Projects"), Str("Key Projects"), Str("Portfolio"),
     Str("Technical Projects"), Str("Publications"), Str("Research"),
     Str("Papers"), Str("Articles"), Str("Awards"), Str("Honors"),
     Str("Recognition"), Str("Achievements")}

\* the keywords list of _check_keyword_stuffing
KEYWORDS ==
    <<Str("software"), Str("development"), Str("programming"), Str("coding"),
      Str("engineer"), Str("developer")>>

\* for match in pattern.finditer(line): violations.append(
\*     Violation(i, line.strip(), type, sev, match.group()))
PerMatchOf(ms, i, line, type, sev) ==
    [k \in 1..Len(ms) |->
        Violation(i, strip(line), type, sev, group(line, ms[k]))]

PerMatch(pattern, i, line, type, sev) ==
    PerMatchOf(finditer(pattern, line), i, line, type, sev)

\* a variant that reports each run of flagged characters once
EmojiLine_PerRun(i, line) ==
    PerMatch(EMOJI_PATTERN, i, line, "Emoji/Special Character", "CRITICAL")

\* a variant that rates emojis HIGH
EmojiLine_High(i, line) ==
    PerMatch(EMOJI_PATTERN, i, line, "Emoji/Special Character", "HIGH")

\* for char in match.group(): one violation per character of the match
EmojiChars(i, stripped, matched_chars) ==
    [j \in 1..Len(matched_chars) |->
        Violation(i, stripped, "Emoji/Special Character", "CRITICAL",
                  <<matched_chars[j]>>)]

EmojiMatches(i, line, ms) ==
    Flatten([k \in 1..Len(ms) |->
                EmojiChars(i, strip(line), group(line, ms[k]))])

EmojiLine(i, line) == EmojiMatches(i, line, finditer(EMOJI_PATTERN, line))

_check_emojis_and_special_chars(lines) ==
    Flatten([i \in 1..Len(lines) |-> EmojiLine(i, lines[i])])

\* the variant of the table rule that passes over separator rows (rows of
\* pipes, dashes and blanks)
TableLine_SkipSeparator(i, line) ==
    IF /\ Len(match(TABLE_PATTERN, line)) > 0
       /\ \E k \in 1..Len(line) : line[k] \notin {124, 45, 32}
    THEN <<Violation(i, strip(line), "Table Usage", "HIGH", strip(line))>>
    ELSE <<>>

\* the body of the loop of _check_tables
TableLine(i, line) ==
    IF Len(match(TABLE_PATTERN, line)) > 0
    THEN <<Violation(i, strip(line), "Table Usage", "HIGH", strip(line))>>
    ELSE <<>>

_check_tables(lines) ==
    Flatten([i \in 1..Len(lines) |-> TableLine(i, lines[i])])

SmartLine(i, line) ==
    PerMatch(SMART_QUOTES_PATTERN, i, line, "Smart Quotes", "MEDIUM")
        \o PerMatch(EM_DASH_PATTERN, i, line, "Em Dash", "MEDIUM")
        \o PerMatch(EN_DASH_PATTERN, i, line, "En Dash", "MEDIUM")
        \o PerMatch(ELLIPSIS_PATTERN, i, line, "Ellipsis", "MEDIUM")

_check_smart_quotes_and_punctuation(lines) ==
    Flatten([i \in 1..Len(lines) |-> SmartLine(i, lines[i])])

\* the body of the loop of _check_all_caps_sections
AllCapsStripped(i, stripped, words) ==
    IF Len(stripped) = 0 \/ startswith(stripped, Str("#")) THEN <<>>
    ELSE IF /\ Len(match(ALL_CAPS_PATTERN, stripped)) > 0
            /\ Len(stripped) > 3
            /\ ~ \E w \in 1..Len(words) : words[w] \in COMMON_ACRONYMS
    THEN <<Violation(i, stripped, "ALL CAPS", "LOW", stripped)>>
    ELSE <<>>

AllCapsLine(i, line) ==
    AllCapsStripped(i, strip(line), split_ws(strip(line)))

_check_all_caps_sections(lines) ==
    Flatten([i \in 1..Len(lines) |-> AllCapsLine(i, lines[i])])

CreativeLine(i, line) ==
    Flatten([p \in 1..Len(CREATIVE_TITLE_PATTERNS) |->
        PerMatch(CREATIVE_TITLE_PATTERNS[p], i, line, "Creative Job Title",
                 "MEDIUM")])

_check_creative_job_titles(lines) ==
    Flatten([i \in 1..Len(lines) |-> CreativeLine(i, lines[i])])

DateLine(i, line) ==
    PerMatch(NON_STANDARD_DATE_PATTERN, i, line, "Non-Standard Date Format",
             "HIGH")

_check_date_formats(lines) ==
    Flatten([i \in 1..Len(lines) |-> DateLine(i, lines[i])])

\* the violation of a comment found on line line_num
HiddenViolation(lines, line_num, found) ==
    Violation(line_num,
              IF line_num <= Len(lines) THEN strip(lines[line_num]) ELSE <<>>,
              "Hidden Text", "CRITICAL", found)

\* the variant that numbers a comment by the line on which it ends
HiddenMatches_AtClosingLine(text, lines, ms) ==
    [k \in 1..Len(ms) |->
        HiddenViolation(lines, count(Slice(text, 0, ms[k][2]), NL) + 1,
                        group(text, ms[k]))]

\* the violations of the comments ms found in the text
HiddenMatches(text, lines, ms) ==
    [k \in 1..Len(ms) |->
        HiddenViolation(lines, count(Slice(text, 0, ms[k][1]), NL) + 1,
                        group(text, ms[k]))]

_check_hidden_text(text) ==
    HiddenMatches(text, splitlines(text),
                  finditer(HIDDEN_COMMENT_PATTERN, text))

\* the variant of the keyword rule that fires from two occurrences on
KeywordLine_FromTwo(i, line) ==
    Flatten([k \in 1..Len(KEYWORDS) |->
        IF count(lower(line), KEYWORDS[k]) > 1
        THEN <<Violation(i, strip(line), "Keyword Stuffing", "LOW",
                         KEYWORDS[k])>>
        ELSE <<>>])

\* the body of the loop of _check_keyword_stuffing
KeywordLine(i, line) ==
    LET line_lower == lower(line)
    IN  Flatten([k \in 1..Len(KEYWORDS) |->
            IF count(line_lower, KEYWORDS[k]) > 2
            THEN <<Violation(i, strip(line), "Keyword Stuffing", "LOW",
                             KEYWORDS[k])>>
            ELSE <<>>])

_check_keyword_stuffing(lines) ==
    Flatten([i \in 1..Len(lines) |-> KeywordLine(i, lines[i])])

SectionStripped(i, stripped, section_name) ==
    IF /\ startswith(stripped, Str("##"))
       /\ Len(section_name) > 0
       /\ section_name \notin STANDARD_SECTIONS
    THEN <<Violation(i, stripped, "Non-Standard Section Header", "LOW",
                     section_name)>>
    ELSE <<>>

\* section_name = stripped[2:].strip()
SectionName(stripped) == strip(Slice(stripped, 2, Len(stripped)))

SectionLine(i, line) ==
    SectionStripped(i, strip(line), SectionName(strip(line)))

_check_section_headers(lines) ==
    Flatten([i \in 1..Len(lines) |-> SectionLine(i, lines[i])])

severity_order ==
    [s \in Severity |->
        CASE s = "CRITICAL" -> 0 [] s = "HIGH" -> 1 [] s = "MEDIUM" -> 2
          [] s = "LOW" -> 3]

\* a variant that orders by severity alone
KeyLess_SeverityOnly(a, b) ==
    severity_order[a.severity] < severity_order[b.severity]

\* key=lambda v: (severity_order[v.severity], v.line_number), compared as
\* Python compares tuples
KeyLess(a, b) ==
    \/ severity_order[a.severity] < severity_order[b.severity]
    \/ /\ severity_order[a.severity] = severity_order[b.severity]
       /\ a.line_number < b.line_number

RECURSIVE InsertSorted(_, _)
\* v placed after every element whose key is not greater than its own
InsertSorted(sorted, v) ==
    IF Len(sorted) = 0 THEN <<v>>
    ELSE IF KeyLess(v, Head(sorted)) THEN <<v>> \o sorted
    ELSE <<Head(sorted)>> \o InsertSorted(Tail(sorted), v)

RECURSIVE SortFrom(_, _, _)
SortFrom(vs, k, acc) ==
    IF k > Len(vs) THEN acc ELSE SortFrom(vs, k + 1, InsertSorted(acc, vs[k]))

\* list.sort(key=...): a stable sort
sort_by_key(vs) == SortFrom(vs, 1, <<>>)

\* s without the "\n" that follow a "\r"; pairs holds each character with
\* the one before it
DropLfAfterCr(pairs) == SelectSeq(pairs, LAMBDA p : ~(p[1] = 10 /\ p[2] = 13))

\* every remaining "\r" becomes "\n"
CrToLf(kept) ==
    [k \in 1..Len(kept) |-> IF kept[k][1] = 13 THEN 10 ELSE kept[k][1]]

\* universal newlines: a "\n" that follows "\r" is dropped, then every
\* "\r" becomes "\n"
UniversalNewlines(s) ==
    CrToLf(DropLfAfterCr(
        [k \in 1..Len(s) |-> <<s[k], IF k > 1 THEN s[k - 1] ELSE 0>>]))

\* file_path.open("r", encoding="utf-8").read(): text mode translates
\* "\r\n" and "\r" to "\n"
read_text(file_text) == UniversalNewlines(file_text)

\* the concatenated outputs of the nine rules, in execution order
RunRules(text, lines) ==
    _check_emojis_and_special_chars(lines)
        \o _check_tables(lines)
        \o _check_smart_quotes_and_punctuation(lines)
        \o _check_all_caps_sections(lines)
        \o _check_creative_job_titles(lines)
        \o _check_date_formats(lines)
        \o _check_hidden_text(text)
        \o _check_keyword_stuffing(lines)
        \o _check_section_headers(lines)

run_all_checks(text) == RunRules(text, splitlines(text))

validate_document(file_text) == sort_by_key(run_all_checks(read_text(file_text)))

---------------------------------------------------------------------------
(* Document validation as a state machine: a document is assembled from    *)
(* the tokens of one bank, then validate_document is called on it.         *)

\* the largest number of tokens in a document
MaxTokens == 3

FAMILY_MAN == 128104

FAMILY_WOMAN == 128105

FAMILY_GIRL == 128103

FAMILY_BOY == 128102

ZWJ == 8205

\* "$ <euro> <pound> <degree> &"
ALLOWED_SYMBOLS == <<36, 32, 8364, 32, 163, 32, 176, 32, 38>>

\* Token banks.  Each bank exercises one group of rules.
DOC_BANKS ==
    << \* 1: one trigger per severity level
       <<<<128512>>, Str("<!--x-->"), Str("2020-2021 "), Str("NINJA"),
         Str("## Foo"), NL>>,
       \* 2: the remaining violation types
       <<Str("| a | b |"), Str("It's") \o <<8212, 8211, 8230>>,
         Str("software software software "), Str("ABCD"), Str(" wizard"),
         NL>>,
       \* 3: emoji sequences and the symbols outside the flagged ranges
       <<<<FAMILY_MAN, ZWJ, FAMILY_WOMAN>>, <<ZWJ>>,
         <<FAMILY_GIRL, ZWJ, FAMILY_BOY>>, <<FAMILY_BOY>>, ALLOWED_SYMBOLS,
         NL>>,
       \* 4: code points at the edges of the flagged ranges
       <<<<8591>>, <<8592>>, <<8703, 8704>>, <<9727, 9728>>,
         <<10175, 10176>>, <<129791, 129792>>>>,
       \* 5: upper-case words, allow-listed acronyms and a heading marker
       <<Str("API "), Str("ABCD"), Str("AWS"), Str("# "), Str("ab"), NL>>,
       \* 6: curly quotes, straight quotes, dashes and the ellipsis
       <<<<8220>>, <<8217>>, Str("'"), Str("\""), <<8212>>, <<8211>>,
         <<8230>>>>,
       \* 7: HTML table tags and cell text
       <<Str("<table>"), Str("</table>"), Str("<TABLE>"),
         Str("<td>a</td>"), Str("x"), NL>>,
       \* 8: Markdown table rows, a separator row and lines with one pipe
       <<Str("| a | b |"), Str("|---|---|"), Str("| a"), Str(" "),
         Str("x"), NL>>,
       \* 9: heading markers of several levels with canonical and other names
       <<Str("## "), Str("#"), Str("Skills"), Str("Foo"), Str(" "), NL>>,
       \* 10: one-word and two-word creative titles
       <<Str("code ninja"), Str("digital wizard"), Str("ninja"), Str("Guru"),
         Str(" "), NL>>,
       \* 11: comment markers, whole comments and line ends
       <<Str("<!--"), Str("-->"), Str("<!--a-->"), Str("x"), Str(" "),
         NL>>,
       \* 12: keywords once and twice per token, in several letter cases
       <<Str("software "), Str("software software "), Str("Coding coding "),
         Str("CODING"), Str("x"), NL>>,
       \* 13: line boundaries other than "\n", with text every validator flags
       <<<<128512>>, Str("<!--x-->"), Str("user@example.com"), <<12>>,
         <<13>>, NL>> >>

TypeOK ==
    /\ pc \in {"build", "done"}
    /\ bank \in 1..Len(DOC_BANKS)
    /\ ntok \in 0..MaxTokens

Init ==
    /\ pc = "build"
    /\ bank \in 1..Len(DOC_BANKS)
    /\ ntok = 0
    /\ content = <<>>
    /\ start_line = 1
    /\ violations = <<>>
    /\ opts = [validate_only |-> FALSE, fail_on_warning |-> FALSE,
               validation_report |-> FALSE]
    /\ exit_code = -1
    /\ report_written = FALSE
    /\ preprocessed = FALSE
    /\ pandoc_runs = 0
    /\ calls = <<>>
    /\ raised = [step |-> "none", exc |-> "none"]
    /\ fs = [input |-> [dir |-> ".", name |-> <<>>], app_tmp |-> FALSE, files |-> {}, remove_failed |-> FALSE]

\* the author appends one more piece of text to the file
AppendToken ==
    /\ pc = "build"
    /\ ntok < MaxTokens
    /\ \E k \in 1..Len(DOC_BANKS[bank]) :
           content' = content \o DOC_BANKS[bank][k]
    /\ ntok' = ntok + 1
    /\ UNCHANGED <<pc, bank, start_line, violations, opts, exit_code,
                   report_written, preprocessed, pandoc_runs>>
    /\ UNCHANGED calls
    /\ UNCHANGED raised
    /\ UNCHANGED fs

\* violations = validate_document(file_path)
ValidateDocument ==
    /\ pc = "build"
    /\ violations' = validate_document(content)
    /\ pc' = "done"
    /\ UNCHANGED <<bank, ntok, content, start_line, opts, exit_code,
                   report_written, preprocessed, pandoc_runs>>
    /\ UNCHANGED calls
    /\ UNCHANGED raised
    /\ UNCHANGED fs

Next == AppendToken \/ ValidateDocument

Spec == Init /\ [][Next]_vars

---------------------------------------------------------------------------
(* Properties of validate_document (rule catalog)                          *)

\* the text validate_document works on and its lines
DocText == read_text(content)

DocLines == splitlines(DocText)

\* position of the rule that emits a violation type, in execution order
RuleIndex(type) ==
    CASE type = "Emoji/Special Character" -> 1
      [] type = "Table Usage" -> 2
      [] type \in {"Smart Quotes", "Em Dash", "En Dash", "Ellipsis"} -> 3
      [] type = "ALL CAPS" -> 4
      [] type = "Creative Job Title" -> 5
      [] type = "Non-Standard Date Format" -> 6
      [] type = "Hidden Text" -> 7
      [] type = "Keyword Stuffing" -> 8
      [] type = "Non-Standard Section Header" -> 9

Rank(v) ==
    CASE v.severity = "CRITICAL" -> 0 [] v.severity = "HIGH" -> 1
      [] v.severity = "MEDIUM" -> 2 [] v.severity = "LOW" -> 3

SameKey(a, b) == Rank(a) = Rank(b) /\ a.line_number = b.line_number

\* C1: the returned list is the stable sort of the concatenated rule outputs
\* by (severity rank, line number): it is ordered by rank and then by line
\* number, violations with equal rank and line keep the order in which the
\* rules emitted them (so they appear in rule-execution order), and nothing
\* is added or lost.
C1_StableSortBySeverityAndLine ==
    pc = "done" =>
        LET emitted == run_all_checks(DocText)
            n == Len(violations)
        IN  /\ \A i, j \in 1..n :
                   i < j =>
                       \/ Rank(violations[i]) < Rank(violations[j])
                       \/ /\ Rank(violations[i]) = Rank(violations[j])
                          /\ violations[i].line_number
                                 <= violations[j].line_number
            /\ \A i, j \in 1..n :
                   (i < j /\ SameKey(violations[i], violations[j])) =>
                       RuleIndex(violations[i].violation_type)
                           <= RuleIndex(violations[j].violation_type)
            /\ \A k \in 1..n :
                   SelectSeq(violations, LAMBDA v : SameKey(v, violations[k]))
                       = SelectSeq(emitted, LAMBDA v : SameKey(v, violations[k]))
            /\ n = Len(emitted)

\* a run in which sorting moved violations and two violations of different
\* rules tie on severity and line
C1_Witness ==
    /\ pc = "done"
    /\ violations # run_all_checks(DocText)
    /\ \E i, j \in 1..Len(violations) :
           /\ i < j
           /\ SameKey(violations[i], violations[j])
           /\ RuleIndex(violations[i].violation_type)
                  < RuleIndex(violations[j].violation_type)

\* the severity the specification assigns to each violation type
SeverityOfType ==
    [type \in {"Emoji/Special Character", "Hidden Text", "Table Usage",
               "Non-Standard Date Format", "Smart Quotes", "Em Dash",
               "En Dash", "Ellipsis", "Creative Job Title", "ALL CAPS",
               "Keyword Stuffing", "Non-Standard Section Header"} |->
        CASE type \in {"Emoji/Special Character", "Hidden Text"} -> "CRITICAL"
          [] type \in {"Table Usage", "Non-Standard Date Format"} -> "HIGH"
          [] type \in {"Smart Quotes", "Em Dash", "En Dash", "Ellipsis",
                       "Creative Job Title"} -> "MEDIUM"
          [] type \in {"ALL CAPS", "Keyword Stuffing",
                       "Non-Standard Section Header"} -> "LOW"]

\* C4: severity is a function of the rule alone: every returned violation
\* carries the severity fixed for its violation type, and no severity lies
\* outside the four levels.
C4_SeverityFixedPerRule ==
    pc = "done" =>
        \A k \in 1..Len(violations) :
            /\ violations[k].violation_type \in DOMAIN SeverityOfType
            /\ violations[k].severity \in Severity
            /\ violations[k].severity
                   = SeverityOfType[violations[k].violation_type]

\* a result holding violations of three different types on one line
C4_Witness ==
    /\ pc = "done"
    /\ \E i, j, k \in 1..Len(violations) :
           /\ violations[i].violation_type = "Emoji/Special Character"
           /\ violations[j].violation_type = "Non-Standard Date Format"
           /\ violations[k].violation_type = "Creative Job Title"
           /\ violations[i].line_number = violations[j].line_number
           /\ violations[j].line_number = violations[k].line_number

\* the code points of a line that lie in the flagged ranges, in order
FlaggedChars(line) == SelectSeq(line, LAMBDA c : c \in EMOJI_RANGES)

\* found_text of the emoji violations reported for line i, in order
EmojiFound(i) ==
    LET hits == SelectSeq(violations,
                    LAMBDA v : /\ v.violation_type = "Emoji/Special Character"
                               /\ v.line_number = i)
    IN  [k \in 1..Len(hits) |-> hits[k].found_text]

\* the four-person family emoji: man, woman, girl, boy joined by ZWJ
FAMILY_EMOJI ==
    <<FAMILY_MAN, ZWJ, FAMILY_WOMAN, ZWJ, FAMILY_GIRL, ZWJ, FAMILY_BOY>>

\* C5: for every line the emoji rule emits exactly one CRITICAL violation per
\* code point of the line that lies in the flagged ranges, with found_text
\* that single code point, and none for any other code point (zero-width
\* joiners and $, euro, pound, degree, & in particular); the family emoji
\* yields exactly 4 violations and a line of allowed symbols yields none.
C5_OneViolationPerFlaggedCodePoint ==
    pc = "done" =>
        /\ \A i \in 1..Len(DocLines) :
               EmojiFound(i)
                   = [k \in 1..Len(FlaggedChars(DocLines[i])) |->
                         <<FlaggedChars(DocLines[i])[k]>>]
        /\ \A k \in 1..Len(violations) :
               violations[k].violation_type = "Emoji/Special Character" =>
                   /\ violations[k].line_number \in 1..Len(DocLines)
                   /\ violations[k].severity = "CRITICAL"
                   /\ Len(violations[k].found_text) = 1
                   /\ violations[k].found_text[1]
                          \notin {ZWJ, 36, 8364, 163, 176, 38}
        /\ content = FAMILY_EMOJI => Len(violations) = 4
        /\ content = ALLOWED_SYMBOLS => Len(violations) = 0

\* the family emoji was validated and gave its four violations
C5_Witness ==
    /\ pc = "done"
    /\ content = FAMILY_EMOJI
    /\ Len(violations) = 4

---------------------------------------------------------------------------
(* ContactValidator: src/ats_pdf_generator/validator/contact_validator.py  *)

\* A Violation of validation_types.py
ContactViolation(n, line, message, suggestion) ==
    [line_number |-> n, line_content |-> line, message |-> message,
     severity |-> "HIGH", suggestion |-> suggestion]

ALNUM == UPPER \cup LOWER \cup DIGITS

\* \b[A-Za-z0-9._%+-]+@[A-Za-z0-9.-]+\.[A-Za-z]{2,}\b
EMAIL_PATTERN ==
    Cat(<<WordB, Plus(Cls(ALNUM \cup {46, 95, 37, 43, 45})), Ch(64),
          Plus(Cls(ALNUM \cup {46, 45})), Ch(46),
          Rep(Cls(UPPER \cup LOWER), 2, -1), WordB>>)

\* \[at\]|\[dot\]|\(at\)|\(dot\)| AT | DOT   with re.IGNORECASE
OBFUSCATED_EMAIL_PATTERN ==
    Alt(<<LitI(Str("[at]")), LitI(Str("[dot]")), LitI(Str("(at)")),
          LitI(Str("(dot)")), LitI(Str(" AT ")), LitI(Str(" DOT "))>>)

\* [-.\s]
PHONE_SEP == Cls({45, 46} \cup WHITESPACE)

\* (\+\d{1,3}[-.\s]?)?(\(?\d{3}\)?[-.\s]?)?\d{3}[-.\s]?\d{4}
PHONE_PATTERN ==
    Cat(<<Opt(Cat(<<Ch(43), Rep(Cls(DIGITS), 1, 3), Opt(PHONE_SEP)>>)),
          Opt(Cat(<<Opt(Ch(40)), Rep(Cls(DIGITS), 3, 3), Opt(Ch(41)),
                    Opt(PHONE_SEP)>>)),
          Rep(Cls(DIGITS), 3, 3), Opt(PHONE_SEP), Rep(Cls(DIGITS), 4, 4)>>)

\* https?://  with re.IGNORECASE
HTTP_PREFIX == Cat(<<LitI(Str("http")), Opt(Cls({115, 83})), Lit(Str("://"))>>)

\* \bhttps?://\S+\b  with re.IGNORECASE
URL_PATTERN == Cat(<<WordB, HTTP_PREFIX, Plus(NCls(WHITESPACE)), WordB>>)

\* \b(?!(?:https?://|www\.))\w+\.\w+/\S+\b  with re.IGNORECASE
BARE_URL_PATTERN ==
    Cat(<<WordB, NotAhead(Alt(<<HTTP_PREFIX, LitI(Str("www."))>>)),
          Plus(Cls(WORDCHARS)), Ch(46), Plus(Cls(WORDCHARS)), Ch(47),
          Plus(NCls(WHITESPACE)), WordB>>)

CONTACT_LABELS ==
    [email |-> <<Str("email:"), Str("e-mail:"), Str("mail:")>>,
     phone |-> <<Str("phone:"), Str("tel:"), Str("telephone:"),
                 Str("mobile:"), Str("cell:")>>,
     linkedin |-> <<Str("linkedin:"), Str("linked-in:")>>,
     github |-> <<Str("github:"), Str("git-hub:")>>,
     location |-> <<Str("location:"), Str("address:"), Str("city:"),
                    Str("where:")>>,
     website |-> <<Str("website:"), Str("web:"), Str("portfolio:"),
                   Str("site:")>>]

\* the emoji class of the label check (flags, pictographs, emoticons,
\* transport, dingbats, ZWJ, VS16, skin tones), one or more
CONTACT_EMOJI_PATTERN ==
    Plus(Cls((127456..127487) \cup (127744..128511) \cup (128512..128591)
                 \cup (128640..128767) \cup (9984..10175) \cup {8205, 65039}
                 \cup (127995..127999)))

\* any(label in text for label in labels)
AnyIn(labels, text) == \E k \in 1..Len(labels) : Contains(text, labels[k])

\* the variant of _validate_email_formatting that goes on to the plain-email
\* check after reporting an obfuscated address
_validate_email_formatting_NoEarlyReturn(line, n) ==
    (IF Len(search(OBFUSCATED_EMAIL_PATTERN, line)) > 0
     THEN <<ContactViolation(n, strip(line),
                "Obfuscated email address detected",
                "Use standard email format: user@example.com")>>
     ELSE <<>>)
    \o (IF /\ Len(search(EMAIL_PATTERN, line)) > 0
           /\ ~AnyIn(CONTACT_LABELS.email, lower(line))
        THEN <<ContactViolation(n, strip(line),
                   "Email address without proper label",
                   "Add 'Email:' label before the address")>>
        ELSE <<>>)

\* the variant of _validate_email_formatting that reports every address,
\* labelled or not
_validate_email_formatting_NoLabelCheck(line, n) ==
    IF Len(search(OBFUSCATED_EMAIL_PATTERN, line)) > 0
    THEN <<ContactViolation(n, strip(line),
               "Obfuscated email address detected",
               "Use standard email format: user@example.com")>>
    ELSE IF Len(search(EMAIL_PATTERN, line)) > 0
         THEN <<ContactViolation(n, strip(line),
                    "Email address without proper label",
                    "Add 'Email:' label before the address")>>
         ELSE <<>>

_validate_email_formatting(line, n) ==
    IF Len(search(OBFUSCATED_EMAIL_PATTERN, line)) > 0
    THEN <<ContactViolation(n, strip(line),
               "Obfuscated email address detected",
               "Use standard email format: user@example.com")>>
    ELSE IF /\ Len(search(EMAIL_PATTERN, line)) > 0
            /\ ~AnyIn(CONTACT_LABELS.email, lower(line))
         THEN <<ContactViolation(n, strip(line),
                    "Email address without proper label",
                    "Add 'Email:' label before the address")>>
         ELSE <<>>

\* phone with "-", " ", ".", "(" and ")" removed
cleaned_phone(phone) ==
    RemoveChar(RemoveChar(RemoveChar(RemoveChar(RemoveChar(phone, 45), 32),
                                     46), 40), 41)

\* the variant of NonStandardPhone that counts "." as a separator too
NonStandardPhone_DotIsSeparator(phone) ==
    /\ Len(match(Rep(Cls(DIGITS), 10, -1), cleaned_phone(phone))) > 0
    /\ \A k \in 1..Len(phone) : phone[k] \notin {45, 32, 40, 41, 46}

\* re.match(r"\d{10,}", cleaned_phone) and not any(sep in phone for sep in
\* ["-", " ", "(", ")"])
NonStandardPhone(phone) ==
    /\ Len(match(Rep(Cls(DIGITS), 10, -1), cleaned_phone(phone))) > 0
    /\ \A k \in 1..Len(phone) : phone[k] \notin {45, 32, 40, 41}

PhoneViolations(line, n, phone_match) ==
    IF Len(phone_match) = 0 THEN <<>>
    ELSE IF ~AnyIn(CONTACT_LABELS.phone, lower(line))
    THEN <<ContactViolation(n, strip(line),
               "Phone number without proper label",
               "Add 'Phone:' label before the number")>>
    ELSE IF NonStandardPhone(group(line, phone_match))
    THEN <<ContactViolation(n, strip(line),
               "Phone number should use standard format",
               "Use format: (555) 123-4567 or 555-123-4567")>>
    ELSE <<>>

_validate_phone_formatting(line, n) ==
    PhoneViolations(line, n, search(PHONE_PATTERN, line))

\* the variant of url_labels that takes the labels of every key
url_labels_AllKeys ==
    CONTACT_LABELS.email \o CONTACT_LABELS.phone \o CONTACT_LABELS.linkedin
        \o CONTACT_LABELS.github \o CONTACT_LABELS.location
        \o CONTACT_LABELS.website

\* the labels of the keys linkedin, github and website
url_labels ==
    CONTACT_LABELS.linkedin \o CONTACT_LABELS.github \o CONTACT_LABELS.website

_validate_url_formatting(line, n) ==
    IF Len(search(URL_PATTERN, line)) > 0 THEN <<>>
    ELSE IF Len(search(BARE_URL_PATTERN, line)) = 0 THEN <<>>
    ELSE IF ~AnyIn(url_labels, lower(line))
    THEN <<ContactViolation(n, strip(line), "URL without proper label",
               "Add appropriate label (LinkedIn:, GitHub:, Website:)")>>
    ELSE <<ContactViolation(n, strip(line),
               "URL should include https:// protocol",
               "Add https:// to the beginning of the URL")>>

\* "@", "com", "org", "net", "phone", "email"
CONTACT_INDICATORS ==
    <<Str("@"), Str("com"), Str("org"), Str("net"), Str("phone"),
      Str("email")>>

\* the test on stripped = content.strip() and rest = stripped[1:].lower()
EmojiAsLabel(stripped, rest) ==
    /\ Len(stripped) > 0
    /\ Len(match(CONTACT_EMOJI_PATTERN, Slice(stripped, 0, 1))) > 0
    /\ Len(stripped) > 1
    /\ (stripped[2] = 32 \/ AnyIn(CONTACT_INDICATORS, rest))
    /\ AnyIn(CONTACT_INDICATORS, rest)

\* stripped[1:].lower()
RestLower(stripped) == lower(Slice(stripped, 1, Len(stripped)))

\* the variant of _validate_contact_labels for which a space after the
\* leading emoji is enough
_validate_contact_labels_SpaceSuffices(line, n) ==
    IF /\ Len(strip(line)) > 1
       /\ Len(match(CONTACT_EMOJI_PATTERN, Slice(strip(line), 0, 1))) > 0
       /\ (strip(line)[2] = 32 \/ AnyIn(CONTACT_INDICATORS, RestLower(strip(line))))
    THEN <<ContactViolation(n, strip(line),
               "Emoji used instead of text label",
               "Use text labels like 'Email:', 'Phone:', 'LinkedIn:'")>>
    ELSE <<>>

\* _validate_contact_labels(content, line_number)
_validate_contact_labels(line, n) ==
    IF /\ Len(search(CONTACT_EMOJI_PATTERN, line)) > 0
       /\ EmojiAsLabel(strip(line), RestLower(strip(line)))
    THEN <<ContactViolation(n, strip(line),
               "Emoji used instead of text label",
               "Use text labels like 'Email:', 'Phone:', 'LinkedIn:'")>>
    ELSE <<>>

\* the variant of the loop body that runs the label check first
ContactLine_LabelsFirst(line, n) ==
    IF Len(strip(line)) = 0 THEN <<>>
    ELSE _validate_contact_labels(line, n)
             \o _validate_email_formatting(line, n)
             \o _validate_phone_formatting(line, n)
             \o _validate_url_formatting(line, n)

\* the violations of one line of the content, blank lines skipped
ContactLine(line, n) ==
    IF Len(strip(line)) = 0 THEN <<>>
    ELSE _validate_email_formatting(line, n)
             \o _validate_phone_formatting(line, n)
             \o _validate_url_formatting(line, n)
             \o _validate_contact_labels(line, n)

\* the variant of the loop in which only non-blank lines advance the counter
ValidateLines_BlankNotCounted(lines, line_number) ==
    Flatten([i \in 1..Len(lines) |->
                ContactLine(lines[i],
                    line_number + Cardinality({j \in 1..(i - 1) :
                                                  Len(strip(lines[j])) > 0}))])

\* the loop of validate over the lines of the content
ValidateLines(lines, line_number) ==
    Flatten([i \in 1..Len(lines) |->
                ContactLine(lines[i], line_number + i - 1)])

\* ContactValidator.validate(content, line_number)
validate(text, line_number) == ValidateLines(split_on(text, 10), line_number)

---------------------------------------------------------------------------
(* ContactValidator.validate on contact text assembled from tokens         *)

MaxContactTokens == 3

\* the line_number arguments tried
START_LINES == {1, 4}

\* the envelope emoji, U+1F4E7
ENVELOPE == <<128231>>

CONTACT_BANKS ==
    << \* 1: phone numbers, year ranges and the phone label
       <<Str("Phone: "), Str("(2021-2022)"), Str("Worked 2021-2022"),
         Str("(555) 123-4567"), Str("5551234567"), Str("555.123.4567"),
         Str("+1"), NL>>,
       \* 2: e-mail addresses, obfuscation markers and the e-mail labels
       <<Str("Email: "), Str("user@example.com"),
         Str("user [at] example.com"), Str(" AT "), Str("mail:"), ENVELOPE,
         Str(" "), NL>>,
       \* 3: URLs with and without protocol, URL labels and other labels
       <<Str("LinkedIn: "), Str("Email: "), Str("Location: "),
         Str("linkedin.com/in/u"), Str("https://"), Str("http://"),
         Str("www."), NL>>,
       \* 4: one line carrying several kinds of contact data
       <<Str("user@example.com "), Str("555-123-4567 "), Str("x.io/me "),
         Str("555-123-4567 x.io/me "), Str("Phone: "), ENVELOPE, NL>> >>

ContactInit ==
    /\ pc = "build"
    /\ bank \in 1..Len(CONTACT_BANKS)
    /\ ntok = 0
    /\ content = <<>>
    /\ start_line \in START_LINES
    /\ violations = <<>>
    /\ opts = [validate_only |-> FALSE, fail_on_warning |-> FALSE,
               validation_report |-> FALSE]
    /\ exit_code = -1
    /\ report_written = FALSE
    /\ preprocessed = FALSE
    /\ pandoc_runs = 0
    /\ calls = <<>>
    /\ raised = [step |-> "none", exc |-> "none"]
    /\ fs = [input |-> [dir |-> ".", name |-> <<>>], app_tmp |-> FALSE, files |-> {}, remove_failed |-> FALSE]

\* one more piece of text is appended to the content to validate
AppendContactToken ==
    /\ pc = "build"
    /\ ntok < MaxContactTokens
    /\ \E k \in 1..Len(CONTACT_BANKS[bank]) :
           content' = content \o CONTACT_BANKS[bank][k]
    /\ ntok' = ntok + 1
    /\ UNCHANGED <<pc, bank, start_line, violations, opts, exit_code,
                   report_written, preprocessed, pandoc_runs>>
    /\ UNCHANGED calls
    /\ UNCHANGED raised
    /\ UNCHANGED fs

\* violations = ContactValidator().validate(content, line_number)
ValidateContact ==
    /\ pc = "build"
    /\ violations' = validate(content, start_line)
    /\ pc' = "done"
    /\ UNCHANGED <<bank, ntok, content, start_line, opts, exit_code,
                   report_written, preprocessed, pandoc_runs>>
    /\ UNCHANGED calls
    /\ UNCHANGED raised
    /\ UNCHANGED fs

ContactNext == AppendContactToken \/ ValidateContact

ContactSpec == ContactInit /\ [][ContactNext]_vars

---------------------------------------------------------------------------
(* Properties of ContactValidator                                          *)

\* the lines validate works on; line i is reported as start_line + i - 1
ContactLines == split_on(content, 10)

\* the violations reported for line i
OnLine(i) ==
    SelectSeq(violations, LAMBDA v : v.line_number = start_line + i - 1)

\* how many violations of line i carry a message of the set msgs
CountOn(i, msgs) == Len(SelectSeq(OnLine(i), LAMBDA v : v.message \in msgs))

EMAIL_MESSAGES ==
    {"Obfuscated email address detected", "Email address without proper label"}

PHONE_MESSAGES ==
    {"Phone number without proper label",
     "Phone number should use standard format"}

URL_MESSAGES ==
    {"URL without proper label", "URL should include https:// protocol"}

\* the line is not blank, so validate runs the sub-checks on it
Checked(line) == \E k \in 1..Len(line) : line[k] \notin WHITESPACE

\* the line holds one of the at/dot markers, in any letter case
HasObfuscationMarker(line) ==
    \E mk \in {Str("[at]"), Str("(at)"), Str(" at "), Str("[dot]"),
               Str("(dot)"), Str(" dot ")} : Contains(lower(line), mk)

\* the line holds one of the given labels, in any letter case
HasLabel(line, labels) == \E lb \in labels : Contains(lower(line), lb)

EmailLabels == {Str("email:"), Str("e-mail:"), Str("mail:")}

PhoneLabels ==
    {Str("phone:"), Str("tel:"), Str("telephone:"), Str("mobile:"),
     Str("cell:")}

UrlLabels ==
    {Str("linkedin:"), Str("linked-in:"), Str("github:"), Str("git-hub:"),
     Str("website:"), Str("web:"), Str("portfolio:"), Str("site:")}

\* C7: on a line without obfuscation marker that contains an email token,
\* validate reports exactly one HIGH "Email address without proper label"
\* when the line holds no email label and no email violation when it holds
\* one; "Email: user@example.com" gives no violation at all and
\* "user@example.com" exactly one.
C7_UnlabelledEmailFlaggedOnce ==
    pc = "done" =>
        /\ \A i \in 1..Len(ContactLines) :
               LET line == ContactLines[i]
               IN  (/\ Checked(line)
                    /\ ~HasObfuscationMarker(line)
                    /\ Len(search(EMAIL_PATTERN, line)) > 0) =>
                       /\ CountOn(i, {"Obfuscated email address detected"}) = 0
                       /\ CountOn(i, {"Email address without proper label"})
                              = IF HasLabel(line, EmailLabels) THEN 0 ELSE 1
        /\ \A k \in 1..Len(violations) :
               violations[k].message \in EMAIL_MESSAGES =>
                   violations[k].severity = "HIGH"
        /\ content = Str("Email: user@example.com") => violations = <<>>
        /\ content = Str("user@example.com") =>
               /\ Len(violations) = 1
               /\ violations[1].message = "Email address without proper label"

\* the bare address was validated and gave its one violation
C7_Witness ==
    /\ pc = "done"
    /\ content = Str("user@example.com")
    /\ Len(violations) = 1
    /\ violations[1].message = "Email address without proper label"

\* C8: on a line with an at/dot obfuscation marker the email sub-check
\* reports exactly one HIGH "Obfuscated email address detected" and never
\* "Email address without proper label", even when the line also holds a
\* well-formed address without label.
C8_ObfuscatedEmailOnly ==
    pc = "done" =>
        \A i \in 1..Len(ContactLines) :
            LET line == ContactLines[i]
            IN  (Checked(line) /\ HasObfuscationMarker(line)) =>
                    /\ CountOn(i, {"Obfuscated email address detected"}) = 1
                    /\ CountOn(i, {"Email address without proper label"}) = 0
                    /\ \A k \in 1..Len(OnLine(i)) :
                           OnLine(i)[k].message \in EMAIL_MESSAGES =>
                               OnLine(i)[k].severity = "HIGH"

\* a validated line with a marker and a well-formed address without label
C8_Witness ==
    /\ pc = "done"
    /\ \E i \in 1..Len(ContactLines) :
           /\ HasObfuscationMarker(ContactLines[i])
           /\ Len(search(EMAIL_PATTERN, ContactLines[i])) > 0
           /\ ~HasLabel(ContactLines[i], EmailLabels)
           /\ CountOn(i, EMAIL_MESSAGES) = 1

\* the text the phone pattern matches first on the line, <<>> if none
PhoneOf(line) ==
    LET m == search(PHONE_PATTERN, line)
    IN  IF Len(m) = 0 THEN <<>> ELSE group(line, m)

\* the phone pattern's match on the line is the tail of a year range: three
\* digits, a dash and four digits, preceded by a digit and followed by ")",
\* whitespace, ",", ":", "." or the end of the line
IsYearRange(line) ==
    LET m == search(PHONE_PATTERN, line)
    IN  /\ Len(m) = 2
        /\ m[2] - m[1] = 8
        /\ \A k \in 1..8 :
               IF k = 4 THEN line[m[1] + k] = 45
               ELSE line[m[1] + k] \in DIGITS
        /\ m[1] > 0
        /\ line[m[1]] \in DIGITS
        /\ \/ m[2] = Len(line)
           \/ line[m[2] + 1] \in {41, 44, 58, 46} \cup WHITESPACE

\* C6: a line whose phone match is a year range gets no phone violation,
\* with or without a label: "(2021-2022)" and "Worked 2021-2022" give none,
\* while "(555) 123-4567" without label gives exactly one HIGH "Phone number
\* without proper label".
C6_YearRangesNeverPhoneViolations ==
    pc = "done" =>
        /\ \A i \in 1..Len(ContactLines) :
               (Checked(ContactLines[i]) /\ IsYearRange(ContactLines[i])) =>
                   CountOn(i, PHONE_MESSAGES) = 0
        /\ content \in {Str("(2021-2022)"), Str("Worked 2021-2022")} =>
               violations = <<>>
        /\ content = Str("(555) 123-4567") =>
               /\ Len(violations) = 1
               /\ violations[1].message = "Phone number without proper label"
               /\ violations[1].severity = "HIGH"

\* the number consists of ten or more digits and nothing else
BareDigitRun(phone) ==
    Len(phone) >= 10 /\ \A k \in 1..Len(phone) : phone[k] \in DIGITS

\* the number consists of digits and dots only and holds ten or more digits
DigitsAndDotsOnly(phone) ==
    /\ \A k \in 1..Len(phone) : phone[k] \in DIGITS \cup {46}
    /\ Cardinality({k \in 1..Len(phone) : phone[k] \in DIGITS}) >= 10

\* C9 as stated: on a line that matches the phone pattern and is no year
\* range, exactly one HIGH "without proper label" when no phone label is
\* present; with a label, "should use standard format" if and only if the
\* matched number has no separator at all (a bare run of ten or more
\* digits), and nothing when the labelled number has separators.
C9_StandardFormatIffNoSeparators ==
    pc = "done" =>
        \A i \in 1..Len(ContactLines) :
            LET line == ContactLines[i]
            IN  (/\ Checked(line)
                 /\ PhoneOf(line) # <<>>
                 /\ ~IsYearRange(line)) =>
                    IF ~HasLabel(line, PhoneLabels)
                    THEN /\ CountOn(i, {"Phone number without proper label"}) = 1
                         /\ CountOn(i, PHONE_MESSAGES) = 1
                    ELSE /\ CountOn(i, {"Phone number without proper label"}) = 0
                         /\ CountOn(i, {"Phone number should use standard format"})
                                = IF BareDigitRun(PhoneOf(line)) THEN 1 ELSE 0

\* C9 amended: as above, except that with a label "should use standard
\* format" is reported if and only if the matched number consists of ten
\* digits separated, if at all, only by dots (it holds no dash, space or
\* parenthesis); every phone violation is HIGH.
C9_StandardFormatIffDigitsAndDots ==
    pc = "done" =>
        /\ \A i \in 1..Len(ContactLines) :
               LET line == ContactLines[i]
               IN  (/\ Checked(line)
                    /\ PhoneOf(line) # <<>>
                    /\ ~IsYearRange(line)) =>
                       IF ~HasLabel(line, PhoneLabels)
                       THEN /\ CountOn(i, {"Phone number without proper label"}) = 1
                            /\ CountOn(i, PHONE_MESSAGES) = 1
                       ELSE /\ CountOn(i, {"Phone number without proper label"}) = 0
                            /\ CountOn(i, {"Phone number should use standard format"})
                                   = IF DigitsAndDotsOnly(PhoneOf(line))
                                     THEN 1 ELSE 0
        /\ \A k \in 1..Len(violations) :
               violations[k].message \in PHONE_MESSAGES =>
                   violations[k].severity = "HIGH"

\* a labelled number written with dots was validated and reported as
\* non-standard
C9_Witness ==
    /\ pc = "done"
    /\ content = Str("Phone: 555.123.4567")
    /\ Len(violations) = 1
    /\ violations[1].message = "Phone number should use standard format"

---------------------------------------------------------------------------
(* The command line: cli in src/ats_pdf_generator/ats_converter.py         *)

MaxCliTokens == 2

\* text pieces with a CRITICAL, a HIGH, a MEDIUM and a LOW trigger and a
\* piece without any
CLI_BANK ==
    <<<<128512>>, Str("2020-2021 "), <<8212>>, Str("## Foo"), Str("plain "),
      NL>>

\* violations of the given severity (v.severity == Severity.X)
OfSeverity(vs, sev) == SelectSeq(vs, LAMBDA v : v.severity = sev)

\* the gate of cli after validation without its critical check outside
\* --validate-only
GateOutcome_NoCriticalGate(vs, o) ==
    IF o.validate_only
    THEN IF Len(vs) > 0
         THEN IF Len(OfSeverity(vs, "CRITICAL")) > 0 THEN "exit1"
              ELSE IF /\ o.fail_on_warning
                      /\ (Len(OfSeverity(vs, "HIGH")) > 0 \/ Len(vs) > 0)
                   THEN "exit1"
              ELSE "return"
         ELSE "return"
    ELSE "convert"

\* the gate of cli whose validation-only mode does not look at
\* --fail-on-warning
GateOutcome_FailOnWarningIgnored(vs, o) ==
    IF o.validate_only
    THEN IF Len(vs) > 0 /\ Len(OfSeverity(vs, "CRITICAL")) > 0 THEN "exit1"
         ELSE "return"
    ELSE IF Len(OfSeverity(vs, "CRITICAL")) > 0 THEN "exit1"
    ELSE "convert"

\* what cli does once the summary is printed: "exit1" is sys.exit(1),
\* "return" ends validation-only mode, "convert" goes on to the conversion
GateOutcome(vs, o) ==
    IF o.validate_only
    THEN IF Len(vs) > 0
         THEN IF Len(OfSeverity(vs, "CRITICAL")) > 0 THEN "exit1"
              ELSE IF /\ o.fail_on_warning
                      /\ (Len(OfSeverity(vs, "HIGH")) > 0 \/ Len(vs) > 0)
                   THEN "exit1"
              ELSE "return"
         ELSE "return"
    ELSE IF Len(OfSeverity(vs, "CRITICAL")) > 0 THEN "exit1"
    ELSE "convert"

\* the exceptions a step of cli can raise
RAISES ==
    [validate_input |-> {"ATSGeneratorError"},
     validate |-> {"FileNotFoundError", "Exception"},
     report |-> {"FileNotFoundError", "Exception"},
     preprocess |-> {"ATSGeneratorError", "Exception"},
     css |-> {"ATSGeneratorError"},
     pandoc |-> {"CalledProcessError", "FileNotFoundError", "Exception"}]

\* the exit code of the except clause that catches the exception
HandlerExit(exc) ==
    CASE exc = "ATSGeneratorError" -> 1
      [] exc = "CalledProcessError" -> 1
      [] exc = "FileNotFoundError" -> 1
      [] exc = "Exception" -> 2

\* the offset of the last "." of the name, -1 when it has none (str.rfind)
rfind_dot(name) ==
    IF \E k \in 1..Len(name) : name[k] = 46
    THEN (CHOOSE k \in 1..Len(name) :
              /\ name[k] = 46
              /\ \A j \in (k + 1)..Len(name) : name[j] # 46) - 1
    ELSE -1

\* PurePath.stem: name[:i] if 0 < i < len(name) - 1 else name
stem_at(name, i) ==
    IF 0 < i /\ i < Len(name) - 1 THEN Slice(name, 0, i) ELSE name

stem(name) == stem_at(name, rfind_dot(name))

\* tmp_dir = Path("/app/tmp") if Path("/app/tmp").exists() else Path("tmp")
tmp_dir(f) == IF f.app_tmp THEN "/app/tmp" ELSE "tmp"

\* a variant that keeps the name of the input file
preprocessed_file_InputName(f) ==
    [dir |-> tmp_dir(f), name |-> f.input.name]

\* preprocessed_file = tmp_dir / f"{input_path.stem}.preprocessed.md"
preprocessed_file(f) ==
    [dir |-> tmp_dir(f), name |-> stem(f.input.name) \o Str(".preprocessed.md")]

\* the input files tried: in the working directory and in either temporary
\* directory, one of them named like a preprocessed file
INPUT_PATHS ==
    {[dir |-> ".", name |-> Str("a.md")],
     [dir |-> "tmp", name |-> Str("a.preprocessed.md")],
     [dir |-> "/app/tmp", name |-> Str("a.preprocessed")]}

\* the file systems cli starts in: the input file exists
CLI_FILE_SYSTEMS ==
    {[input |-> p, app_tmp |-> t, files |-> {p}, remove_failed |-> FALSE] :
        p \in INPUT_PATHS, t \in BOOLEAN}

\* the local preprocessed_file is bound: cli got as far as line 539 (a
\* step that raised before that line has not created the file either)
PreprocessedFileBound ==
    \/ raised.step \in {"preprocess", "css", "pandoc"}
    \/ pc \in {"css", "pandoc"}
    \/ pandoc_runs > 0

CliInit ==
    /\ pc = "build"
    /\ bank = 1
    /\ ntok = 0
    /\ content = <<>>
    /\ start_line = 1
    /\ violations = <<>>
    /\ opts \in [validate_only : BOOLEAN, fail_on_warning : BOOLEAN,
                 validation_report : BOOLEAN]
    /\ exit_code = -1
    /\ report_written = FALSE
    /\ preprocessed = FALSE
    /\ pandoc_runs = 0
    /\ calls = <<>>
    /\ raised = [step |-> "none", exc |-> "none"]
    /\ fs \in CLI_FILE_SYSTEMS

\* the input file gets one more piece of text before cli is started
AppendCliToken ==
    /\ pc = "build"
    /\ ntok < MaxCliTokens
    /\ \E k \in 1..Len(CLI_BANK) : content' = content \o CLI_BANK[k]
    /\ ntok' = ntok + 1
    /\ UNCHANGED <<pc, bank, start_line, violations, opts, exit_code,
                   report_written, preprocessed, pandoc_runs>>
    /\ UNCHANGED calls
    /\ UNCHANGED raised
    /\ UNCHANGED fs

\* cli starts: _validate_input_file(input_file) passes
CliValidateInput ==
    /\ pc = "build"
    /\ pc' = "validate"
    /\ UNCHANGED <<bank, ntok, content, start_line, violations, opts,
                   exit_code, report_written, preprocessed, pandoc_runs>>
    /\ UNCHANGED calls
    /\ UNCHANGED raised
    /\ UNCHANGED fs

\* violations = validate_document(input_path)
CliValidateDocument ==
    /\ pc = "validate"
    /\ violations' = validate_document(content)
    /\ pc' = "report"
    /\ UNCHANGED <<bank, ntok, content, start_line, opts, exit_code,
                   report_written, preprocessed, pandoc_runs>>
    /\ UNCHANGED calls
    /\ UNCHANGED raised
    /\ UNCHANGED fs

\* the report is written when --validation-report is given
CliReport ==
    /\ pc = "report"
    /\ report_written' = opts.validation_report
    /\ pc' = "gate"
    /\ UNCHANGED <<bank, ntok, content, start_line, violations, opts,
                   exit_code, preprocessed, pandoc_runs>>
    /\ UNCHANGED calls
    /\ UNCHANGED raised
    /\ UNCHANGED fs

\* the summary is printed; then the validate-only branch and the critical
\* check decide between sys.exit(1), return and the conversion
CliGateTo(outcome) ==
    /\ pc' = IF outcome = "convert" THEN "preprocess" ELSE "finally"
    /\ exit_code' = CASE outcome = "exit1" -> 1
                      [] outcome = "return" -> 0
                      [] outcome = "convert" -> exit_code

CliGate ==
    /\ pc = "gate"
    /\ CliGateTo(GateOutcome(violations, opts))
    /\ UNCHANGED <<bank, ntok, content, start_line, violations, opts,
                   report_written, preprocessed, pandoc_runs>>
    /\ UNCHANGED calls
    /\ UNCHANGED raised
    /\ UNCHANGED fs

\* tmp_dir.mkdir and _preprocess_markdown(input_path, preprocessed_file)
CliPreprocess ==
    /\ pc = "preprocess"
    /\ preprocessed' = TRUE
    /\ fs' = [fs EXCEPT !.files = @ \cup {preprocessed_file(fs)}]
    /\ pc' = "css"
    /\ UNCHANGED <<bank, ntok, content, start_line, violations, opts,
                   exit_code, report_written, pandoc_runs>>
    /\ UNCHANGED calls
    /\ UNCHANGED raised

\* css_file = _determine_css_file(document_type, custom_css)
CliDetermineCss ==
    /\ pc = "css"
    /\ pc' = "pandoc"
    /\ UNCHANGED <<bank, ntok, content, start_line, violations, opts,
                   exit_code, report_written, preprocessed, pandoc_runs>>
    /\ UNCHANGED calls
    /\ UNCHANGED raised
    /\ UNCHANGED fs

\* subprocess.run(cmd, check=True, ...) succeeds and cli returns
CliPandoc ==
    /\ pc = "pandoc"
    /\ pandoc_runs' = pandoc_runs + 1
    /\ exit_code' = 0
    /\ pc' = "finally"
    /\ UNCHANGED <<bank, ntok, content, start_line, violations, opts,
                   report_written, preprocessed>>
    /\ UNCHANGED calls
    /\ UNCHANGED raised
    /\ UNCHANGED fs

\* the current step raises; the matching except clause calls sys.exit.
\* A failing _preprocess_markdown may or may not have created its output
\* file; pandoc has run when it fails with CalledProcessError.
CliRaise ==
    /\ pc \in {"build", "validate", "report", "preprocess", "css", "pandoc"}
    /\ LET step == IF pc = "build" THEN "validate_input" ELSE pc
       IN  \E exc \in RAISES[step] :
               /\ (step = "report" /\ exc = "FileNotFoundError")
                      => opts.validation_report
               /\ raised' = [step |-> step, exc |-> exc]
               /\ exit_code' = HandlerExit(exc)
               /\ preprocessed' \in
                      IF step = "preprocess" THEN BOOLEAN ELSE {preprocessed}
               /\ pandoc_runs' =
                      IF step = "pandoc" /\ exc = "CalledProcessError"
                      THEN pandoc_runs + 1 ELSE pandoc_runs
               /\ fs' = IF preprocessed' /\ ~preprocessed
                        THEN [fs EXCEPT !.files = @ \cup {preprocessed_file(fs)}]
                        ELSE fs
    /\ pc' = "finally"
    /\ UNCHANGED <<bank, ntok, content, start_line, violations, opts,
                   report_written>>
    /\ UNCHANGED calls

\* finally: os.remove(preprocessed_file) if the local is bound and the file
\* exists; an OSError is ignored and leaves the file
CliFinally ==
    /\ pc = "finally"
    /\ IF PreprocessedFileBound /\ preprocessed_file(fs) \in fs.files
       THEN \E failed \in BOOLEAN :
                /\ fs' = [fs EXCEPT
                             !.files = IF failed THEN @
                                       ELSE @ \ {preprocessed_file(fs)},
                             !.remove_failed = failed]
                /\ preprocessed' = failed
       ELSE /\ fs' = fs
            /\ preprocessed' = FALSE
    /\ pc' = "exited"
    /\ UNCHANGED <<bank, ntok, content, start_line, violations, opts,
                   exit_code, report_written, pandoc_runs>>
    /\ UNCHANGED calls
    /\ UNCHANGED raised

CliNext ==
    \/ AppendCliToken
    \/ CliValidateInput
    \/ CliValidateDocument
    \/ CliReport
    \/ CliGate
    \/ CliPreprocess
    \/ CliDetermineCss
    \/ CliPandoc
    \/ CliRaise
    \/ CliFinally

CliSpec == CliInit /\ [][CliNext]_vars

\* the list holds a CRITICAL violation
HasCritical(vs) == \E k \in 1..Len(vs) : vs[k].severity = "CRITICAL"

\* cli is at or past the markdown preprocessing, or the conversion has left
\* a trace
ReachedConversion ==
    \/ pc \in {"preprocess", "css", "pandoc"}
    \/ preprocessed
    \/ pandoc_runs > 0

\* C2: once validate_document has returned a CRITICAL violation, cli never
\* reaches the markdown preprocessing or the pandoc call and its exit code
\* is non-zero, whatever --validate-only, --fail-on-warning and
\* --validation-report are.
C2_CriticalBlocksConversion ==
    HasCritical(violations) =>
        /\ ~ReachedConversion
        /\ pc = "exited" => exit_code \in {1, 2}
        /\ exit_code # 0

\* cli has exited with code 1 on a document with a CRITICAL violation,
\* without --validate-only and with --fail-on-warning and the report
C2_Witness ==
    /\ pc = "exited"
    /\ HasCritical(violations)
    /\ ~opts.validate_only
    /\ opts.fail_on_warning
    /\ report_written
    /\ exit_code = 1

\* C3: with --fail-on-warning, once validate_document has returned at least
\* one violation of any severity, cli does not run the conversion and exits
\* with an error code, with and without --validate-only.
C3_FailOnWarningBlocksConversion ==
    (opts.fail_on_warning /\ Len(violations) > 0) =>
        /\ ~ReachedConversion
        /\ pc = "exited" => exit_code \in {1, 2}

---------------------------------------------------------------------------
(* Further properties of ContactValidator                                  *)

\* the suggestions of ContactValidator that mention https://
HTTPS_SUGGESTIONS == {"Add https:// to the beginning of the URL"}

\* the line holds a URL that starts with http:// and not with https://
HasHttpUrl(line) ==
    /\ Len(search(URL_PATTERN, line)) > 0
    /\ lower(Slice(line, search(URL_PATTERN, line)[1],
                   search(URL_PATTERN, line)[1] + 7)) = Str("http://")

\* C11: a line that holds a URL label and a URL starting with http:// (not
\* https://), such as "LinkedIn: http://linkedin.com/in/user", gets exactly
\* one violation whose suggestion mentions https://, of severity HIGH.
C11_HttpUrlFlagged ==
    pc = "done" =>
        \A i \in 1..Len(ContactLines) :
            (/\ Checked(ContactLines[i])
             /\ HasLabel(ContactLines[i], UrlLabels)
             /\ HasHttpUrl(ContactLines[i]))
                => /\ Len(SelectSeq(OnLine(i),
                           LAMBDA v : v.suggestion \in HTTPS_SUGGESTIONS)) = 1
                   /\ \A k \in 1..Len(OnLine(i)) :
                          OnLine(i)[k].severity = "HIGH"

EMOJI_LABEL_MESSAGES == {"Emoji used instead of text label"}

\* the code points of the label-oriented emoji set
LabelEmoji == CONTACT_EMOJI_PATTERN.r.s

\* the text is a contact-indicator token at the start of rest
IndicatorAtStart(rest) ==
    \E k \in 1..Len(CONTACT_INDICATORS) :
        StartsAt(lower(rest), CONTACT_INDICATORS[k], 0)

\* the violations of line i that do not come from the label check
NonLabelOn(i) ==
    SelectSeq(OnLine(i), LAMBDA v : v.message \notin EMOJI_LABEL_MESSAGES)

\* the email, phone and URL violations of line i, as the three sub-checks
\* report them for the line on their own
SubCheckViolations(i) ==
    _validate_email_formatting(ContactLines[i], start_line + i - 1)
        \o _validate_phone_formatting(ContactLines[i], start_line + i - 1)
        \o _validate_url_formatting(ContactLines[i], start_line + i - 1)

\* C12 as stated: a line whose first character is a label emoji immediately
\* followed by a space or by a contact-indicator token (@, com, org, net,
\* phone, email) gets one HIGH 'Emoji used instead of text label' violation,
\* in addition to the email, phone and URL violations of the line.
C12_EmojiFollowedBySpaceOrIndicator ==
    pc = "done" =>
        \A i \in 1..Len(ContactLines) :
            (/\ Len(ContactLines[i]) > 1
             /\ ContactLines[i][1] \in LabelEmoji
             /\ \/ ContactLines[i][2] = 32
                \/ IndicatorAtStart(Slice(ContactLines[i], 1,
                                          Len(ContactLines[i]))))
                => /\ CountOn(i, EMOJI_LABEL_MESSAGES) = 1
                   /\ NonLabelOn(i) = SubCheckViolations(i)

\* the trimmed line starts with a label emoji and the text after that
\* first character holds a contact indicator somewhere
EmojiLabelCase(st) ==
    /\ Len(st) > 1
    /\ st[1] \in LabelEmoji
    /\ \E k \in 1..Len(CONTACT_INDICATORS) :
           Contains(lower(Slice(st, 1, Len(st))), CONTACT_INDICATORS[k])

\* C12 (amended): a non-blank line gets exactly one HIGH 'Emoji used instead
\* of text label' violation when its trimmed text starts with a label emoji
\* and the text after that character contains a contact indicator (@, com,
\* org, net, phone, email) anywhere, and none otherwise (a space after the
\* emoji is not enough); the violation comes after, and in addition to, the
\* email, phone and URL violations of the line, which are unchanged.
C12_EmojiLabelAdditive ==
    pc = "done" =>
        \A i \in 1..Len(ContactLines) :
            Checked(ContactLines[i]) =>
                /\ CountOn(i, EMOJI_LABEL_MESSAGES)
                       = IF EmojiLabelCase(strip(ContactLines[i])) THEN 1
                         ELSE 0
                /\ NonLabelOn(i) = SubCheckViolations(i)
                /\ \A k \in 1..Len(OnLine(i)) :
                       OnLine(i)[k].message \in EMOJI_LABEL_MESSAGES
                           => /\ k = Len(OnLine(i))
                              /\ OnLine(i)[k].severity = "HIGH"

\* an emoji followed by an unlabelled email address was validated and gave
\* the missing-label violation and the emoji violation
C12_Witness ==
    /\ pc = "done"
    /\ content = ENVELOPE \o Str(" ") \o Str("user@example.com")
    /\ Len(violations) = 2
    /\ violations[1].message = "Email address without proper label"
    /\ violations[2].message = "Emoji used instead of text label"

\* C13: validate(content, n) splits content on "\n" and gives the k-th line
\* (k from 0) the number n + k.  Blank and whitespace-only lines give no
\* violation but are counted, so the violations carrying the number n + k
\* are exactly those of the k-th line validated on its own, the violations
\* come in line order, and each line_content is its line trimmed.
C13_LineNumbersFollowSplit ==
    pc = "done" =>
        /\ \A j \in 1..Len(violations) :
               /\ violations[j].line_number \in
                      start_line..(start_line + Len(ContactLines) - 1)
               /\ violations[j].line_content
                      = strip(ContactLines[violations[j].line_number
                                               - start_line + 1])
               /\ Checked(ContactLines[violations[j].line_number
                                           - start_line + 1])
               /\ j > 1 => violations[j - 1].line_number
                               <= violations[j].line_number
        /\ \A i \in 1..Len(ContactLines) :
               OnLine(i) = validate(ContactLines[i], start_line + i - 1)

\* a blank first line was counted: the address on the second line of the
\* content is reported at line_number + 1
C13_Witness ==
    /\ pc = "done"
    /\ start_line = 4
    /\ content = NL \o Str("user@example.com") \o Str(" ")
    /\ Len(violations) = 1
    /\ violations[1].line_number = 5
    /\ violations[1].line_content = Str("user@example.com")

---------------------------------------------------------------------------
(* Further properties of validate_document (rule catalog)                  *)

\* the violations of line i whose violation_type is in types
TypedOn(i, types) ==
    SelectSeq(violations,
              LAMBDA v : v.line_number = i /\ v.violation_type \in types)

\* upper-case letters, digits, whitespace and . , ! ? - : ; ( )
CAPS_CHARS ==
    UPPER \cup DIGITS \cup WHITESPACE
        \cup {Ord("."), Ord(","), Ord("!"), Ord("?"), Ord("-"), Ord(":"),
              Ord(";"), Ord("("), Ord(")")}

\* a non-empty, non-heading line of length > 3 made only of upper-case
\* letters, digits and basic punctuation (st is the trimmed line)
IsAllCapsLine(st) ==
    /\ Len(st) > 3
    /\ st[1] # Ord("#")
    /\ \A k \in 1..Len(st) : st[k] \in CAPS_CHARS

\* every word of the trimmed line is in the acronym allow-list
AllWordsAcronyms(st) ==
    \A w \in 1..Len(split_ws(st)) : split_ws(st)[w] \in COMMON_ACRONYMS

\* C14: an all-caps line (non-empty, not a heading, longer than 3) escapes
\* the LOW ALL CAPS violation only when every word on it is in the acronym
\* allow-list; a line mixing an allow-listed acronym with other upper-case
\* words gets the violation.
C14_ExemptOnlyWhenAllAcronyms ==
    pc = "done" =>
        \A i \in 1..Len(DocLines) :
            (/\ IsAllCapsLine(strip(DocLines[i]))
             /\ ~AllWordsAcronyms(strip(DocLines[i])))
                => /\ Len(TypedOn(i, {"ALL CAPS"})) = 1
                   /\ TypedOn(i, {"ALL CAPS"})[1].severity = "LOW"

\* the curly quotes U+2018, U+2019, U+201C and U+201D
CURLY_QUOTES == {8216, 8217, 8220, 8221}

\* how many characters of the line are in the set chars
Occurrences(line, chars) == Len(SelectSeq(line, LAMBDA c : c \in chars))

\* C15: on every line each curly quote, em dash, en dash and ellipsis
\* character gives exactly one MEDIUM violation of type Smart Quotes, Em
\* Dash, En Dash and Ellipsis respectively, and no other character (no
\* straight ASCII quote or apostrophe in particular) gives any of them.
C15_SmartPunctuationPerOccurrence ==
    pc = "done" =>
        \A i \in 1..Len(DocLines) :
            /\ Len(TypedOn(i, {"Smart Quotes"}))
                   = Occurrences(DocLines[i], CURLY_QUOTES)
            /\ Len(TypedOn(i, {"Em Dash"})) = Occurrences(DocLines[i], {8212})
            /\ Len(TypedOn(i, {"En Dash"})) = Occurrences(DocLines[i], {8211})
            /\ Len(TypedOn(i, {"Ellipsis"})) = Occurrences(DocLines[i], {8230})
            /\ \A k \in 1..Len(TypedOn(i, {"Smart Quotes", "Em Dash",
                                            "En Dash", "Ellipsis"})) :
                   TypedOn(i, {"Smart Quotes", "Em Dash", "En Dash",
                               "Ellipsis"})[k].severity = "MEDIUM"

\* <table>.*?</table> with re.IGNORECASE and re.DOTALL
HTML_TABLE_BLOCK ==
    Cat(<<LitI(Str("<table>")), LazyRep(DotAll, 0, -1),
          LitI(Str("</table>"))>>)

\* the line on which offset at of the text lies
LineOfOffset(text, at) == Occurrences(Slice(text, 0, at), {10}) + 1

\* found_text of a block: its first 100 characters and an ellipsis when it
\* is longer than that
Truncated(block) ==
    IF Len(block) > 100
    THEN {SubSeq(block, 1, 100) \o Str("..."), SubSeq(block, 1, 100) \o <<8230>>}
    ELSE {block}

\* C16: every <table>...</table> block of the text, in any letter case and
\* possibly over several lines, is reported exactly once by the table rule:
\* one HIGH Table Usage violation at the line of the opening tag, whose
\* found_text is the block cut to 100 characters plus an ellipsis when the
\* block is longer.
C16_HtmlTableReportedOncePerBlock ==
    pc = "done" =>
        \A b \in 1..Len(finditer(HTML_TABLE_BLOCK, DocText)) :
            LET m == finditer(HTML_TABLE_BLOCK, DocText)[b]
                hits == SelectSeq(violations,
                            LAMBDA v : /\ v.violation_type = "Table Usage"
                                       /\ v.line_number
                                              = LineOfOffset(DocText, m[1])
                                       /\ v.found_text
                                              \in Truncated(group(DocText, m)))
            IN  /\ Len(hits) = 1
                /\ hits[1].severity = "HIGH"

\* the line is a pipe-delimited row: its first character after optional
\* leading whitespace is "|" and a second "|" follows
IsPipedRow(line) ==
    \E j \in 1..Len(line) :
        /\ line[j] = 124
        /\ \A k \in 1..(j - 1) : line[k] \in WHITESPACE
        /\ \E k \in (j + 1)..Len(line) : line[k] = 124

\* C17: every line that is a pipe-delimited row gets exactly one HIGH Table
\* Usage violation at its own line number, separator rows included, and
\* every other line (a line with fewer than two pipes in particular) gets
\* none; so a table of N rows gives exactly N table violations.
C17_EveryPipedRowFlagged ==
    pc = "done" =>
        /\ \A i \in 1..Len(DocLines) :
               /\ Len(TypedOn(i, {"Table Usage"}))
                      = IF IsPipedRow(DocLines[i]) THEN 1 ELSE 0
               /\ \A k \in 1..Len(TypedOn(i, {"Table Usage"})) :
                      /\ TypedOn(i, {"Table Usage"})[k].severity = "HIGH"
                      /\ TypedOn(i, {"Table Usage"})[k].found_text
                             = strip(DocLines[i])
        /\ Len(SelectSeq(violations,
                         LAMBDA v : v.violation_type = "Table Usage"))
               = Cardinality({i \in 1..Len(DocLines) :
                                 IsPipedRow(DocLines[i])})

\* a header row and a separator row were validated and each was reported at
\* its own line
C17_Witness ==
    /\ pc = "done"
    /\ content = Str("| a | b |") \o NL \o Str("|---|---|")
    /\ Len(violations) = 2
    /\ violations[1].violation_type = "Table Usage"
    /\ violations[1].line_number = 1
    /\ violations[2].violation_type = "Table Usage"
    /\ violations[2].line_number = 2

\* the trimmed line st is a heading with exactly two leading "#"
IsLevelTwoHeading(st) ==
    /\ Len(st) >= 2
    /\ st[1] = Ord("#")
    /\ st[2] = Ord("#")
    /\ Len(st) >= 3 => st[3] # Ord("#")

\* C18: a line gets a LOW Non-Standard Section Header violation if and only
\* if it is a heading with exactly two leading "#" whose trimmed text is not
\* empty and not a member of the canonical section names; headings of other
\* levels (# or ###) and ##-headings with a canonical name get none.
C18_OnlyLevelTwoNonStandardFlagged ==
    pc = "done" =>
        \A i \in 1..Len(DocLines) :
            /\ Len(TypedOn(i, {"Non-Standard Section Header"}))
                   = IF /\ IsLevelTwoHeading(strip(DocLines[i]))
                        /\ Len(SectionName(strip(DocLines[i]))) > 0
                        /\ SectionName(strip(DocLines[i]))
                               \notin STANDARD_SECTIONS
                     THEN 1 ELSE 0
            /\ \A k \in 1..Len(TypedOn(i, {"Non-Standard Section Header"})) :
                   TypedOn(i, {"Non-Standard Section Header"})[k].severity
                       = "LOW"

\* one creative-title occurrence: a two-word compound (code ninja, digital
\* wizard, tech rockstar, code guru) or else a single creative word, as a
\* whole word in any letter case
CREATIVE_OCCURRENCE ==
    Cat(<<WordB,
          Alt(<<CREATIVE_TITLE_PATTERNS[2].rs[2],
                CREATIVE_TITLE_PATTERNS[1].rs[2]>>),
          WordB>>)

\* C19: the number of MEDIUM Creative Job Title violations of a line equals
\* the number of creative-title occurrences on it, a two-word compound such
\* as "code ninja" or "digital wizard" being one occurrence with exactly one
\* violation.
C19_OneViolationPerCreativeTitle ==
    pc = "done" =>
        \A i \in 1..Len(DocLines) :
            /\ Len(TypedOn(i, {"Creative Job Title"}))
                   = Len(finditer(CREATIVE_OCCURRENCE, DocLines[i]))
            /\ \A k \in 1..Len(TypedOn(i, {"Creative Job Title"})) :
                   TypedOn(i, {"Creative Job Title"})[k].severity = "MEDIUM"

RECURSIVE CommentBlocksFrom(_, _)
\* the comment blocks of the text from offset i on, as <<start, end>>: each
\* runs from the next "<!--" to the first "-->" after it
CommentBlocksFrom(text, i) ==
    LET open == FirstFrom(text, i, LAMBDA x : StartsAt(text, Str("<!--"), x))
        close == FirstFrom(text, open + 4,
                           LAMBDA x : StartsAt(text, Str("-->"), x))
    IN  IF open > Len(text) \/ close > Len(text) THEN <<>>
        ELSE <<<<open, close + 3>>>> \o CommentBlocksFrom(text, close + 3)

\* the Hidden Text violations, in the order of the result
HiddenFound == SelectSeq(violations, LAMBDA v : v.violation_type = "Hidden Text")

\* C20: every comment block <!-- ... --> of the text, also one that spans
\* several lines, gives exactly one CRITICAL Hidden Text violation whose
\* line_number is 1 plus the number of "\n" before the start of the comment
\* (the line of the opening marker); two comments give two violations.
C20_OneViolationPerCommentAtOpeningLine ==
    pc = "done" =>
        LET blocks == CommentBlocksFrom(DocText, 0)
        IN  /\ Len(HiddenFound) = Len(blocks)
            /\ \A b \in 1..Len(blocks) :
                   /\ HiddenFound[b].line_number
                          = Occurrences(Slice(DocText, 0, blocks[b][1]), {10})
                                + 1
                   /\ HiddenFound[b].severity = "CRITICAL"
                   /\ HiddenFound[b].found_text = group(DocText, blocks[b])

\* a comment opened on line 1 and closed on line 2 was validated and is
\* reported once, at line 1
C20_Witness ==
    /\ pc = "done"
    /\ content = Str("<!--") \o NL \o Str("-->")
    /\ Len(violations) = 1
    /\ violations[1].violation_type = "Hidden Text"
    /\ violations[1].line_number = 1

\* the number of offsets of the lower-cased line at which the keyword stands
KeywordOccurrences(line, keyword) ==
    Cardinality({x \in 0..Len(line) : StartsAt(lower(line), keyword, x)})

\* the Keyword Stuffing violations of line i for the keyword
StuffingOn(i, keyword) ==
    SelectSeq(TypedOn(i, {"Keyword Stuffing"}),
              LAMBDA v : v.found_text = keyword)

\* C21: for each line and each of the six keywords there is exactly one LOW
\* Keyword Stuffing violation if the keyword occurs more than 2 times on
\* that line and none otherwise (2 occurrences never fire); occurrences on
\* different lines are never added up, so a keyword that appears at most
\* twice on each line gives no violation.
C21_KeywordStuffingPerLine ==
    pc = "done" =>
        /\ \A i \in 1..Len(DocLines) :
               \A k \in 1..Len(KEYWORDS) :
                   /\ Len(StuffingOn(i, KEYWORDS[k]))
                          = IF KeywordOccurrences(DocLines[i], KEYWORDS[k]) > 2
                            THEN 1 ELSE 0
                   /\ \A j \in 1..Len(StuffingOn(i, KEYWORDS[k])) :
                          StuffingOn(i, KEYWORDS[k])[j].severity = "LOW"
        /\ \A j \in 1..Len(violations) :
               violations[j].violation_type = "Keyword Stuffing" =>
                   /\ violations[j].line_number \in 1..Len(DocLines)
                   /\ \E k \in 1..Len(KEYWORDS) :
                          violations[j].found_text = KEYWORDS[k]

\* a keyword that stands twice on each of two lines was validated and gave
\* no violation
C21_Witness ==
    /\ pc = "done"
    /\ content = Str("software software ") \o NL \o Str("software software ")
    /\ Len(violations) = 0

---------------------------------------------------------------------------
(* A session: repeated calls of validate_document and of the validate      *)
(* method of one ContactValidator instance                                 *)

\* the largest number of calls in a session
MaxCalls == 3

\* the documents validated in a session
SESSION_DOCS ==
    <<<<>>, <<128512>> \o NL \o Str("ABCD"), Str("2020-2021 <!--x-->")>>

\* the contact texts validated in a session
SESSION_CONTACTS ==
    <<Str("user@example.com"),
      Str("Phone: 5551234567") \o NL \o Str("x.io/me"),
      Str("Email: user@example.com")>>

\* the list returned by the last call of validate on the instance, empty
\* when there was none
LastReturned(log) ==
    IF \E k \in 1..Len(log) : log[k].fn = "validate"
    THEN log[CHOOSE k \in 1..Len(log) :
                 /\ log[k].fn = "validate"
                 /\ \A j \in (k + 1)..Len(log) : log[j].fn # "validate"].result
    ELSE <<>>

\* the variant of the method that goes on filling the list it returned last
validate_on_instance_KeepsList(returned, text, line_number) ==
    returned \o validate(text, line_number)

\* validate called on an instance that has returned the list returned
\* before: the method starts from a new empty list and reads only the
\* patterns and labels set by __init__
validate_on_instance(returned, text, line_number) ==
    <<>> \o validate(text, line_number)

SessionInit ==
    /\ pc = "session"
    /\ bank = 1
    /\ ntok = 0
    /\ content = <<>>
    /\ start_line = 1
    /\ violations = <<>>
    /\ opts = [validate_only |-> FALSE, fail_on_warning |-> FALSE,
               validation_report |-> FALSE]
    /\ exit_code = -1
    /\ report_written = FALSE
    /\ preprocessed = FALSE
    /\ pandoc_runs = 0
    /\ calls = <<>>
    /\ raised = [step |-> "none", exc |-> "none"]
    /\ fs = [input |-> [dir |-> ".", name |-> <<>>], app_tmp |-> FALSE, files |-> {}, remove_failed |-> FALSE]

\* the result of a call is returned and noted in the session
Returned(fn, text, line_number, result) ==
    /\ content' = text
    /\ start_line' = line_number
    /\ violations' = result
    /\ calls' = Append(calls, [fn |-> fn, content |-> text,
                               line_number |-> line_number,
                               result |-> result])

\* validate_document(file_path) on a file with one of the documents
CallValidateDocument ==
    /\ pc = "session"
    /\ Len(calls) < MaxCalls
    /\ \E d \in 1..Len(SESSION_DOCS) :
           Returned("validate_document", SESSION_DOCS[d], 1,
                    validate_document(SESSION_DOCS[d]))
    /\ UNCHANGED <<pc, bank, ntok, opts, exit_code, report_written,
                   preprocessed, pandoc_runs>>
    /\ UNCHANGED raised
    /\ UNCHANGED fs

\* validator.validate(content, line_number) on the instance of the session
CallContactValidate ==
    /\ pc = "session"
    /\ Len(calls) < MaxCalls
    /\ \E c \in 1..Len(SESSION_CONTACTS), n \in START_LINES :
           Returned("validate", SESSION_CONTACTS[c], n,
                    validate_on_instance(LastReturned(calls),
                                         SESSION_CONTACTS[c], n))
    /\ UNCHANGED <<pc, bank, ntok, opts, exit_code, report_written,
                   preprocessed, pandoc_runs>>
    /\ UNCHANGED raised
    /\ UNCHANGED fs

SessionNext == CallValidateDocument \/ CallContactValidate

SessionSpec == SessionInit /\ [][SessionNext]_vars

---------------------------------------------------------------------------
(* validate_document of the validator package:                             *)
(* src/ats_pdf_generator/validator/validator.py                            *)

\* the lines a text-mode file yields: each ends with its "\n", the last one
\* may lack it
FileLinesOf(parts) ==
    [k \in 1..(Len(parts) - 1) |-> parts[k] \o NL]
        \o (IF Len(parts[Len(parts)]) > 0 THEN <<parts[Len(parts)]>>
            ELSE <<>>)

FileLines(file_text) == FileLinesOf(split_on(read_text(file_text), 10))

\* Violation(..., message=f"Disallowed characters: '{match.group(0)}'", ...)
DisallowedCharacters(i, line, ms) ==
    [k \in 1..Len(ms) |->
        [line_number |-> i, line_content |-> strip(line),
         message |-> "Disallowed characters", found_text |-> group(line, ms[k]),
         severity |-> "CRITICAL",
         suggestion |-> "Remove emojis and special characters"]]

\* a variant whose enumerate counts the lines from 0
PackageLine_FromZero(i, line) ==
    DisallowedCharacters(i - 1, line, finditer(EMOJI_PATTERN, line))
        \o validate(line, i - 1)

\* the body of the loop over the lines of the file; the package compiles
\* the same character ranges as EMOJI_PATTERN of the rule catalog
PackageLine(i, line) ==
    DisallowedCharacters(i, line, finditer(EMOJI_PATTERN, line))
        \o validate(line, i)

PackageLines(lines) ==
    Flatten([i \in 1..Len(lines) |-> PackageLine(i, lines[i])])

\* validate_document(file_path) of the package
package_validate_document(file_text) == PackageLines(FileLines(file_text))

\* violations = validate_document(file_path), with the package's function
ValidatePackageDocument ==
    /\ pc = "build"
    /\ violations' = package_validate_document(content)
    /\ pc' = "package_done"
    /\ UNCHANGED <<bank, ntok, content, start_line, opts, exit_code,
                   report_written, preprocessed, pandoc_runs>>
    /\ UNCHANGED calls
    /\ UNCHANGED raised
    /\ UNCHANGED fs

PackageNext == AppendToken \/ ValidateDocument \/ ValidatePackageDocument

PackageSpec == Init /\ [][PackageNext]_vars

\* C23: every violation of either validate_document has a line_number from
\* 1 up to the number of lines of the document (the lines of
\* content.splitlines() for the rule catalog, the lines read from the file
\* for the package), and an empty document yields no violations.
C23_LineNumbersWithinDocument ==
    /\ pc = "done" =>
           \A k \in 1..Len(violations) :
               violations[k].line_number \in 1..Len(DocLines)
    /\ pc = "package_done" =>
           \A k \in 1..Len(violations) :
               violations[k].line_number \in 1..Len(FileLines(content))
    /\ (pc \in {"done", "package_done"} /\ content = <<>>)
           => violations = <<>>

\* the package reported a violation on the last of several lines of a
\* document that also holds a form feed
C23_Witness ==
    /\ pc = "package_done"
    /\ Len(FileLines(content)) >= 2
    /\ \E k \in 1..Len(content) : content[k] = 12
    /\ \E k \in 1..Len(violations) :
           violations[k].line_number = Len(FileLines(content))

---------------------------------------------------------------------------
(* Further properties of cli                                               *)

\* the exception is one the claim lists with exit code 1: an error class of
\* the program, a failed pandoc run or a missing pandoc binary
ListedWithExitOne(r) ==
    \/ r.exc = "ATSGeneratorError"
    \/ r.step = "pandoc" /\ r.exc \in {"CalledProcessError", "FileNotFoundError"}

\* C24: an error of the program's own classes, a failed pandoc run and a
\* missing pandoc binary end cli with exit code 1, any other exception ends
\* it with exit code 2, and the exit with code 1 of the gating path stays 1.
C24_ExitCodes ==
    pc \in {"finally", "exited"} =>
        /\ raised.exc # "none" =>
               exit_code = IF ListedWithExitOne(raised) THEN 1 ELSE 2
        /\ (raised.exc = "none" /\ GateOutcome(violations, opts) = "exit1")
               => exit_code = 1


\* C25: with --validate-only cli never creates the preprocessed file and
\* never invokes pandoc; when nothing raised it ends with exit code 0 if
\* there are no violations, or none is CRITICAL and --fail-on-warning is
\* not set, and with exit code 1 otherwise.
C25_ValidateOnlyOnlyValidates ==
    opts.validate_only =>
        /\ ~ReachedConversion
        /\ (pc \in {"finally", "exited"} /\ raised.exc = "none") =>
               exit_code =
                   IF \/ violations = <<>>
                      \/ ~HasCritical(violations) /\ ~opts.fail_on_warning
                   THEN 0 ELSE 1

\* a validation-only run has ended with exit code 1 on a document whose
\* violations are all below CRITICAL
C25_Witness ==
    /\ pc = "exited"
    /\ opts.validate_only
    /\ opts.fail_on_warning
    /\ raised.exc = "none"
    /\ Len(violations) > 0
    /\ ~HasCritical(violations)
    /\ exit_code = 1


\* C30: when cli has finished and os.remove did not fail, the preprocessed
\* file it created is gone, whichever way cli ended; and the input file
\* exists throughout.
C30_PreprocessedFileRemoved ==
    /\ fs.input \in fs.files
    /\ (pc = "exited" /\ ~fs.remove_failed) =>
           /\ preprocessed_file(fs) \notin fs.files
           /\ ~preprocessed

\* cli has finished after pandoc failed on the preprocessed copy of an input
\* file that lies in the temporary directory, and the copy is gone
C30_Witness ==
    /\ pc = "exited"
    /\ raised = [step |-> "pandoc", exc |-> "CalledProcessError"]
    /\ pandoc_runs = 1
    /\ fs.input.dir = tmp_dir(fs)
    /\ ~fs.remove_failed
    /\ preprocessed_file(fs) \notin fs.files

---------------------------------------------------------------------------
(* Further properties of ContactValidator: labels and counts per line      *)

\* the line up to and including its first colon, the whole line when it has
\* none
UpToFirstColon(line) ==
    IF \E k \in 1..Len(line) : line[k] = 58
    THEN Slice(line, 0, CHOOSE k \in 1..Len(line) :
                            /\ line[k] = 58
                            /\ \A j \in 1..(k - 1) : line[j] # 58)
    ELSE line

\* C26: each sub-check looks for its labels only in the lower-cased text
\* that ends at the first colon of the line: an email, phone number or bare
\* URL on a line whose label comes after the first colon is reported as
\* unlabeled.
C26_LabelOnlyBeforeFirstColon ==
    pc = "done" =>
        \A i \in 1..Len(ContactLines) :
            LET line == ContactLines[i]
            IN  Checked(line) =>
                    /\ (/\ ~HasObfuscationMarker(line)
                        /\ Len(search(EMAIL_PATTERN, line)) > 0) =>
                           CountOn(i, {"Email address without proper label"})
                               = IF HasLabel(UpToFirstColon(line), EmailLabels)
                                 THEN 0 ELSE 1
                    /\ Len(search(PHONE_PATTERN, line)) > 0 =>
                           CountOn(i, {"Phone number without proper label"})
                               = IF HasLabel(UpToFirstColon(line), PhoneLabels)
                                 THEN 0 ELSE 1
                    /\ (/\ Len(search(URL_PATTERN, line)) = 0
                        /\ Len(search(BARE_URL_PATTERN, line)) > 0) =>
                           CountOn(i, {"URL without proper label"})
                               = IF HasLabel(UpToFirstColon(line), UrlLabels)
                                 THEN 0 ELSE 1


\* the sub-check a message comes from, in the order validate runs them
SubCheckRank(message) ==
    CASE message \in EMAIL_MESSAGES -> 1
      [] message \in PHONE_MESSAGES -> 2
      [] message \in URL_MESSAGES -> 3
      [] message \in EMOJI_LABEL_MESSAGES -> 4
      [] OTHER -> 0

\* the ranks of the violations of a line rise strictly
RanksRise(vs) ==
    /\ \A k \in 1..Len(vs) : SubCheckRank(vs[k].message) > 0
    /\ \A k \in 1..(Len(vs) - 1) :
           SubCheckRank(vs[k].message) < SubCheckRank(vs[k + 1].message)

\* C29: for each line validate reports at most one email, one phone, one
\* URL and one emoji-label violation, in that order: at most four
\* violations per line, all HIGH.
C29_AtMostOnePerSubCheck ==
    pc = "done" =>
        /\ \A i \in 1..Len(ContactLines) :
               /\ CountOn(i, EMAIL_MESSAGES) <= 1
               /\ CountOn(i, PHONE_MESSAGES) <= 1
               /\ CountOn(i, URL_MESSAGES) <= 1
               /\ CountOn(i, EMOJI_LABEL_MESSAGES) <= 1
               /\ RanksRise(OnLine(i))
               /\ Len(OnLine(i)) <= 4
        /\ \A k \in 1..Len(violations) :
               /\ violations[k].severity = "HIGH"
               /\ violations[k].line_number \in
                      start_line..(start_line + Len(ContactLines) - 1)

\* one line gave an email, a phone, a URL and an emoji-label violation
C29_Witness ==
    /\ pc = "done"
    /\ Len(ContactLines) = 1
    /\ Len(violations) = 4
    /\ violations[1].message \in EMAIL_MESSAGES
    /\ violations[2].message \in PHONE_MESSAGES
    /\ violations[3].message \in URL_MESSAGES
    /\ violations[4].message \in EMOJI_LABEL_MESSAGES

---------------------------------------------------------------------------
(* validate_document with its nine rules run in another order              *)

\* the orders tried: the order of validate_document, its reverse, a
\* rotation, and the Hidden Text rule moved to the front
RULE_ORDERS ==
    {<<1, 2, 3, 4, 5, 6, 7, 8, 9>>, <<9, 8, 7, 6, 5, 4, 3, 2, 1>>,
     <<4, 5, 6, 7, 8, 9, 1, 2, 3>>, <<7, 1, 2, 3, 4, 5, 6, 8, 9>>}

\* the output of the rule that validate_document runs at position r
RuleOutput(r, text, lines) ==
    CASE r = 1 -> _check_emojis_and_special_chars(lines)
      [] r = 2 -> _check_tables(lines)
      [] r = 3 -> _check_smart_quotes_and_punctuation(lines)
      [] r = 4 -> _check_all_caps_sections(lines)
      [] r = 5 -> _check_creative_job_titles(lines)
      [] r = 6 -> _check_date_formats(lines)
      [] r = 7 -> _check_hidden_text(text)
      [] r = 8 -> _check_keyword_stuffing(lines)
      [] r = 9 -> _check_section_headers(lines)

\* a variant in which the rule run last adds nothing
RunRulesIn_LastDropped(order, text, lines) ==
    Flatten([k \in 1..(Len(order) - 1) |-> RuleOutput(order[k], text, lines)])

\* violations.extend(rule(...)) for the rules in the given order
RunRulesIn(order, text, lines) ==
    Flatten([k \in 1..Len(order) |-> RuleOutput(order[k], text, lines)])

\* validate_document with the extend calls in the given order, then the sort
validate_document_in(order, file_text) ==
    sort_by_key(RunRulesIn(order, read_text(file_text),
                           splitlines(read_text(file_text))))

\* validate_document is called with its rules in one of the orders
ValidateInOrder ==
    /\ pc = "build"
    /\ \E order \in RULE_ORDERS :
           violations' = validate_document_in(order, content)
    /\ pc' = "ordered_done"
    /\ UNCHANGED <<bank, ntok, content, start_line, opts, exit_code,
                   report_written, preprocessed, pandoc_runs>>
    /\ UNCHANGED calls
    /\ UNCHANGED raised
    /\ UNCHANGED fs

OrderedNext == AppendToken \/ ValidateInOrder

OrderedSpec == Init /\ [][OrderedNext]_vars

\* how often v occurs in the list
TimesIn(vs, v) == Cardinality({k \in 1..Len(vs) : vs[k] = v})

SameViolations(vs, ws) ==
    /\ Len(vs) = Len(ws)
    /\ \A k \in 1..Len(vs) :
           /\ SameKey(vs[k], ws[k])
           /\ TimesIn(vs, vs[k]) = TimesIn(ws, vs[k])

---------------------------------------------------------------------------
(* Further properties of the Hidden Text rule                              *)

\* the 1-based index, in splitlines() of the text, of the line on which
\* offset at lies (the text read from the file holds no "\r")
SplitLineOfOffset(text, at) == Occurrences(Slice(text, 0, at), LINE_BREAKS) + 1

\* C28: every Hidden Text violation carries the index, in
\* content.splitlines(), of the line with the comment's opening marker and
\* that line trimmed, whatever line separators the document holds.
C28_HiddenTextLineIsSplitLine ==
    pc = "done" =>
        LET blocks == CommentBlocksFrom(DocText, 0)
        IN  /\ Len(HiddenFound) = Len(blocks)
            /\ \A b \in 1..Len(blocks) :
                   /\ HiddenFound[b].line_number
                          = SplitLineOfOffset(DocText, blocks[b][1])
                   /\ HiddenFound[b].line_content
                          = strip(DocLines[SplitLineOfOffset(DocText,
                                                             blocks[b][1])])
===========================================================================
